---- MODULE Spec2Model ----
(***************************************************************************)
(* A model of the fixed-size N-way associative cache: the slot array, the  *)
(* element count, the round-robin replacement policy, the pointer-based    *)
(* indices strategy, the entry handle and the differential test harness,   *)
(* the scripted insert trace of the crate's tests, the replacement         *)
(* policies called on their own, and the cache under LRU replacement.      *)
(*                                                                         *)
(* Option<T> is modelled as a sequence: <<>> is None, <<k, v>> is          *)
(* Some((k, v)) and <<v>> is Some(v).                                      *)
(***************************************************************************)
EXTENDS Integers, Sequences, FiniteSets, TLC

\* Keys are the addresses k * align for k in 0..MaxKey; values are 0..MaxVal.
MaxKey == 3
MaxVal == 1
\* The harness draws its keys from the addresses k * align for k in 0..MaxHarnessKey.
MaxHarnessKey == 4
\* A policy called on its own is offered 1..MaxCands candidates, MaxCalls times.
MaxCands == 3
MaxCalls == 5
\* Instants are 0..MaxClock.
MaxClock == 3
\* Keys and eviction decisions of the cache with two groups of slots.
MaxSharedKey == 5
MaxDecisions == 3
\* A strategy called on its own is given keys 0..MaxHashKey hashing to
\* 0..MaxHash, for the capacities 1..MaxCapacity.
MaxHashKey == 2
MaxHash == 4
MaxCapacity == 5

VARIABLES
    cfg,        \* the type parameters C and I: capacity, ways, pointee alignment
    entries,    \* AssociativeCache::entries, a function 0..capacity-1 -> slot
    len,        \* AssociativeCache::len
    n,          \* RoundRobinReplacement::n
    handle,     \* the live Entry handle, <<>> when there is none
    last,       \* the last call made and what it returned
    conform,    \* every make_key so far returned a key equal to the queried key
    expected,   \* the harness's reference HashMap
    status,     \* the harness's result so far: "ok" or "bail"
    step,       \* how many calls of the scripted trace were made, -1 once off it
    cands,      \* the candidates offered to a policy called on its own
    picked,     \* what that policy returned, call after call
    now,        \* Instant::now()
    used        \* per slot, the instant of the most recent use of its pair

vars == <<cfg, entries, len, n, handle, last, conform, expected, status,
          step, cands, picked, now, used>>

\* The caches of the main specification, over *mut u8 keys: Capacity2 with
\* PointerTwoWay (one group of two slots), Capacity2 with PointerDirectMapped
\* (two groups of one slot) and Capacity1 with PointerDirectMapped.
Configs ==
    { [capacity |-> 2, ways |-> 2, align |-> 1],
      [capacity |-> 2, ways |-> 1, align |-> 1],
      [capacity |-> 1, ways |-> 1, align |-> 1] }

\* The harness's cache: Capacity4 with PointerTwoWay over *mut u64 keys.
HarnessConfigs == { [capacity |-> 4, ways |-> 2, align |-> 8] }

CAPACITY == cfg.capacity

Keys == { k * cfg.align : k \in 0..MaxKey }
Vals == 0..MaxVal
HarnessKeys == { k * cfg.align : k \in 0..MaxHarnessKey }

Slots == 0..(CAPACITY - 1)

\* Candidate indices that start at the group's number, not at its first slot.
IndicesUngrouped(ptr) ==
    LET i    == ptr \div cfg.align
        base == i % (CAPACITY \div cfg.ways)
    IN  [j \in 1..cfg.ways |-> base + (j - 1)]

\* Candidate indices over any N consecutive slots of the storage.
IndicesAnyWindow(ptr) ==
    LET i    == ptr \div cfg.align
        base == i % (CAPACITY - cfg.ways + 1)
    IN  [j \in 1..cfg.ways |-> base + (j - 1)]

\* Candidate indices computed from the address with its low bits left in.
IndicesKeepLowBits(ptr) ==
    LET i    == ptr
        base == (i % (CAPACITY \div cfg.ways)) * cfg.ways
    IN  [j \in 1..cfg.ways |-> base + (j - 1)]

\* define_pointer_n_way: the candidate indices of a key, in iteration order.
Indices(ptr) ==
    LET i    == ptr \div cfg.align
        base == (i % (CAPACITY \div cfg.ways)) * cfg.ways
    IN  [j \in 1..cfg.ways |-> base + (j - 1)]

IndexSet(key) == { Indices(key)[j] : j \in 1..Len(Indices(key)) }

\* CandMax with the variants declared in the other order: New above Replace.
CandMaxNewFirst(a, b) ==
    LET rank(c) == IF c[1] = 0 THEN 0 ELSE 3 - c[1]
    IN  IF rank(b) > rank(a) \/ (rank(b) = rank(a) /\ b[2] >= a[2]) THEN b ELSE a

\* A max that keeps the earlier of two candidates of the same variant.
CandMaxKeepEarlier(a, b) ==
    IF b[1] > a[1] THEN b ELSE a

\* max over Option<InsertionCandidate>: a candidate is <<rank, index>> with
\* rank 0 for None, 1 for New and 2 for Replace (the derived Ord).
CandMax(a, b) ==
    IF b[1] > a[1] \/ (b[1] = a[1] /\ b[2] >= a[2]) THEN b ELSE a

\* The first loop of insert that keeps the first empty slot it sees.
RECURSIVE InsertScanFirstEmpty(_, _, _, _)
InsertScanFirstEmpty(es, key, idxs, best) ==
    IF idxs = <<>> THEN best
    ELSE LET index == Head(idxs)
             b == IF es[index] = <<>> THEN
                      (IF best = <<0, 0>> THEN <<1, index>> ELSE best)
                  ELSE IF es[index][1] = key THEN CandMax(best, <<2, index>>)
                  ELSE best
         IN  InsertScanFirstEmpty(es, key, Tail(idxs), b)

\* The first loop of insert: classify every candidate slot.
RECURSIVE InsertScan(_, _, _, _)
InsertScan(es, key, idxs, best) ==
    IF idxs = <<>> THEN best
    ELSE LET index == Head(idxs)
             b == IF es[index] = <<>> THEN CandMax(best, <<1, index>>)
                  ELSE IF es[index][1] = key THEN CandMax(best, <<2, index>>)
                  ELSE best
         IN  InsertScan(es, key, Tail(idxs), b)

\* The candidates paired with the keys stored at their indices.
CandidatesWithKeys(es, key) ==
    [j \in 1..Len(Indices(key)) |-> <<Indices(key)[j], es[Indices(key)[j]][1]>>]

\* The (index, value) pairs handed to the replacement policy.
Candidates(es, key) ==
    [j \in 1..Len(Indices(key)) |-> <<Indices(key)[j], es[Indices(key)[j]][2]>>]

\* The position, counted from 0, of the candidate with this index.
PositionOf(index, candidates) ==
    (CHOOSE p \in 1..Len(candidates) : candidates[p][1] = index) - 1

\* choose_for_replacement returning the position instead of the slot index.
RoundRobinChoosePosition(rr, candidates) ==
    LET l  == Len(candidates)
        n1 == rr % l
    IN  [index |-> n1, n |-> n1 + 1]

\* choose_for_replacement that stores the counter without reducing it first.
RoundRobinChooseUnreduced(rr, candidates) ==
    LET l  == Len(candidates)
        n1 == rr % l
    IN  [index |-> candidates[n1 + 1][1], n |-> rr + 1]

\* RoundRobinReplacement::choose_for_replacement: the chosen index and the
\* counter afterwards.
RoundRobinChoose(rr, candidates) ==
    LET l  == Len(candidates)
        n1 == rr % l
    IN  [index |-> candidates[n1 + 1][1], n |-> n1 + 1]

\* The New arm without len += 1.
InsertNewKeepLen(es, l, rr, key, value, index) ==
    [entries |-> [es EXCEPT ![index] = <<key, value>>],
     len |-> l, n |-> rr, ret |-> <<>>,
     index |-> index, chosen |-> <<>>, ok |-> TRUE]

\* insert, the New arm: the key goes into an empty candidate slot.
InsertNew(es, l, rr, key, value, index) ==
    [entries |-> [es EXCEPT ![index] = <<key, value>>],
     len |-> l + 1, n |-> rr, ret |-> <<>>,
     index |-> index, chosen |-> <<>>, ok |-> TRUE]

\* The Replace arm dropping the old pair instead of returning it.
InsertSameDropOld(es, l, rr, key, value, index) ==
    [entries |-> [es EXCEPT ![index] = <<key, value>>],
     len |-> l, n |-> rr, ret |-> <<>>,
     index |-> index, chosen |-> <<>>, ok |-> TRUE]

\* The Replace arm counting the overwritten key once more.
InsertSameGrow(es, l, rr, key, value, index) ==
    [entries |-> [es EXCEPT ![index] = <<key, value>>],
     len |-> l + 1, n |-> rr, ret |-> es[index],
     index |-> index, chosen |-> <<>>, ok |-> TRUE]

\* insert, the Replace arm: the slot already holding the key is overwritten.
InsertSame(es, l, rr, key, value, index) ==
    [entries |-> [es EXCEPT ![index] = <<key, value>>],
     len |-> l, n |-> rr, ret |-> es[index],
     index |-> index, chosen |-> <<>>, ok |-> TRUE]

\* The eviction path returning the new pair instead of the evicted one.
InsertEvictReturnNew(es, l, rr, key, value) ==
    LET c == RoundRobinChoose(rr, Candidates(es, key))
    IN  [entries |-> [es EXCEPT ![c.index] = <<key, value>>],
         len |-> l, n |-> c.n, ret |-> <<key, value>>,
         index |-> c.index, chosen |-> <<c.index>>,
         offered |-> Candidates(es, key), ok |-> TRUE]

\* The eviction path returning the evicted pair without storing the new one.
InsertEvictNoStore(es, l, rr, key, value) ==
    LET c == RoundRobinChoose(rr, Candidates(es, key))
    IN  [entries |-> es,
         len |-> l, n |-> c.n, ret |-> es[c.index],
         index |-> c.index, chosen |-> <<c.index>>,
         offered |-> Candidates(es, key), ok |-> TRUE]

\* The eviction path that also empties the candidates it did not choose.
InsertEvictFlush(es, l, rr, key, value) ==
    LET c == RoundRobinChoose(rr, Candidates(es, key))
    IN  [entries |-> [i \in DOMAIN es |->
                         IF i = c.index THEN <<key, value>>
                         ELSE IF i \in IndexSet(key) THEN <<>>
                         ELSE es[i]],
         len |-> l - (Len(Indices(key)) - 1), n |-> c.n, ret |-> es[c.index],
         index |-> c.index, chosen |-> <<c.index>>,
         offered |-> Candidates(es, key), ok |-> TRUE]

\* insert, the eviction path: the policy chooses among the candidates; ok is
\* the two assertions on the chosen index.
InsertEvict(es, l, rr, key, value) ==
    LET c   == RoundRobinChoose(rr, Candidates(es, key))
        inb == c.index \in DOMAIN es /\ es[c.index] # <<>>
    IN  [entries |-> IF inb THEN [es EXCEPT ![c.index] = <<key, value>>] ELSE es,
         len |-> l, n |-> c.n,
         ret |-> IF inb THEN es[c.index] ELSE <<>>,
         index |-> c.index, chosen |-> <<c.index>>,
         offered |-> Candidates(es, key), ok |-> inb]

\* AssociativeCache::insert as a function of the cache's fields.
InsertResult(es, l, rr, key, value) ==
    LET best == InsertScan(es, key, Indices(key), <<0, 0>>)
    IN  IF best[1] = 1 THEN InsertNew(es, l, rr, key, value, best[2])
        ELSE IF best[1] = 2 THEN InsertSame(es, l, rr, key, value, best[2])
        ELSE InsertEvict(es, l, rr, key, value)

\* The scan of get, get_mut and remove: the first candidate slot holding key.
RECURSIVE FindIndex(_, _, _)
FindIndex(es, key, idxs) ==
    IF idxs = <<>> THEN <<>>
    ELSE IF es[Head(idxs)] # <<>> /\ es[Head(idxs)][1] = key THEN <<Head(idxs)>>
    ELSE FindIndex(es, key, Tail(idxs))

\* get looking at the first candidate slot only.
GetResultFirstOnly(es, key) ==
    LET f == FindIndex(es, key, SubSeq(Indices(key), 1, 1))
    IN  IF f = <<>> THEN <<>> ELSE <<es[f[1]][2]>>

\* AssociativeCache::get: the value found, if any.
GetResult(es, key) ==
    LET f == FindIndex(es, key, Indices(key))
    IN  IF f = <<>> THEN <<>> ELSE <<es[f[1]][2]>>

\* The record of a call: its arguments and what it returned, with the slot
\* it acted on (index), the policy's choice (chosen), the slots retain's
\* predicate was called on and accepted (visited, kept), whether
\* or_insert_with invoked its closures (made), which call on the handle came
\* before or_insert_with (after) and the kind the handle had when
\* or_insert_with or take_entry_that_will_be_replaced was called (kind), and
\* the calls it made of the policy's on_hit and on_insert, each with the
\* slot of the value passed (hooks), whether the call panicked on one of
\* its assertions instead of returning (panicked), and the candidates it
\* handed to choose_for_replacement (offered).
\* replacement_policy.on_hit(v) and on_insert(v) for the value in slot index.
OnHit(index) == [hook |-> "on_hit", index |-> index]
OnInsert(index) == [hook |-> "on_insert", index |-> index]

\* The hook calls of get and get_mut: on_hit on the value found, if any.
HitHooks(es, key) ==
    LET f == FindIndex(es, key, Indices(key))
    IN  IF f = <<>> THEN <<>> ELSE <<OnHit(f[1])>>

NoCall == [op |-> "new", key |-> 0, val |-> 0, ret |-> <<>>,
           index |-> 0, chosen |-> <<>>, visited |-> {}, kept |-> {},
           made |-> FALSE, after |-> "new", kind |-> "None",
           hooks |-> <<>>, panicked |-> FALSE, offered |-> <<>>]

Call(op, key, val, ret, index, chosen) ==
    [op |-> op, key |-> key, val |-> val, ret |-> ret,
     index |-> index, chosen |-> chosen, visited |-> {}, kept |-> {},
     made |-> FALSE, after |-> "new", kind |-> "None", hooks |-> <<>>,
     panicked |-> FALSE, offered |-> <<>>]

\* AssociativeCache::with_replacement_policy(RoundRobinReplacement::default())
New(c) ==
    /\ cfg = c
    /\ CAPACITY > 0
    /\ entries = [i \in Slots |-> <<>>]
    /\ len = 0
    /\ n = 0
    /\ handle = <<>>
    /\ last = NoCall
    /\ conform = TRUE
    /\ expected = [k \in {} |-> 0]
    /\ status = "ok"

\* No scripted trace, no policy called on its own, no LRU clock.
AtRest ==
    /\ step = 0
    /\ cands = <<>>
    /\ picked = <<>>
    /\ now = 0
    /\ used = <<>>

Init == \E c \in Configs : New(c) /\ AtRest

\* insert that returns None and stores nothing when it would have to evict.
InsertUnlessFull(key, value) ==
    /\ handle = <<>>
    /\ \E r \in {InsertResult(entries, len, n, key, value)} :
           /\ r.ok
           /\ entries' = IF r.chosen = <<>> THEN r.entries ELSE entries
           /\ len' = r.len
           /\ n' = r.n
           /\ last' = [Call("insert", key, value,
                            IF r.chosen = <<>> THEN r.ret ELSE <<>>,
                            r.index, r.chosen) EXCEPT
                        !.offered = IF r.chosen = <<>> THEN <<>>
                                    ELSE r.offered]
    /\ UNCHANGED <<cfg, handle, conform>>

Insert(key, value) ==
    /\ handle = <<>>
    /\ \E r \in {InsertResult(entries, len, n, key, value)} :
           /\ r.ok
           /\ entries' = r.entries
           /\ len' = r.len
           /\ n' = r.n
           /\ last' = [Call("insert", key, value, r.ret, r.index, r.chosen)
                           EXCEPT !.offered = IF r.chosen = <<>> THEN <<>>
                                              ELSE r.offered]
    /\ UNCHANGED <<cfg, handle, conform>>

\* AssociativeCache::get; RoundRobinReplacement keeps the default on_hit.
Get(key) ==
    /\ handle = <<>>
    /\ last' = [Call("get", key, 0, GetResult(entries, key), 0, <<>>)
                    EXCEPT !.hooks = HitHooks(entries, key)]
    /\ UNCHANGED <<cfg, entries, len, n, handle, conform>>

\* AssociativeCache::get_mut: the value found, if any.
GetMutResult(es, key) ==
    LET f == FindIndex(es, key, Indices(key))
    IN  IF f = <<>> THEN <<>> ELSE <<es[f[1]][2]>>

GetMut(key) ==
    /\ handle = <<>>
    /\ last' = [Call("get_mut", key, 0, GetMutResult(entries, key), 0, <<>>)
                    EXCEPT !.hooks = HitHooks(entries, key)]
    /\ UNCHANGED <<cfg, entries, len, n, handle, conform>>

\* remove without len -= 1.
RemoveResultKeepLen(es, l, key) ==
    LET f == FindIndex(es, key, Indices(key))
    IN  IF f = <<>> THEN [entries |-> es, len |-> l, ret |-> <<>>, index |-> 0]
        ELSE [entries |-> [es EXCEPT ![f[1]] = <<>>], len |-> l,
              ret |-> <<es[f[1]][2]>>, index |-> f[1]]

\* AssociativeCache::remove as a function of the cache's fields.
RemoveResult(es, l, key) ==
    LET f == FindIndex(es, key, Indices(key))
    IN  IF f = <<>> THEN [entries |-> es, len |-> l, ret |-> <<>>, index |-> 0]
        ELSE [entries |-> [es EXCEPT ![f[1]] = <<>>], len |-> l - 1,
              ret |-> <<es[f[1]][2]>>, index |-> f[1]]

\* remove that returns the value and counts it out but leaves the slot full.
RemoveLeaveSlot(key) ==
    /\ handle = <<>>
    /\ \E r \in {RemoveResult(entries, len, key)} :
           /\ entries' = entries
           /\ len' = r.len
           /\ last' = Call("remove", key, 0, r.ret, r.index, <<>>)
    /\ UNCHANGED <<cfg, n, handle, conform>>

Remove(key) ==
    /\ handle = <<>>
    /\ \E r \in {RemoveResult(entries, len, key)} :
           /\ entries' = r.entries
           /\ len' = r.len
           /\ last' = Call("remove", key, 0, r.ret, r.index, <<>>)
    /\ UNCHANGED <<cfg, n, handle, conform>>

\* retain that drops the pairs its predicate accepts and keeps the others.
RetainResultInverted(es, l, keep) ==
    LET dropped == { i \in DOMAIN es : es[i] # <<>> /\ i \in keep }
    IN  [entries |-> [i \in DOMAIN es |-> IF i \in dropped THEN <<>> ELSE es[i]],
         len |-> l - Cardinality(dropped)]

\* AssociativeCache::retain; keep is the set of slots on which f returns true.
RetainResult(es, l, keep) ==
    LET dropped == { i \in DOMAIN es : es[i] # <<>> /\ i \notin keep }
    IN  [entries |-> [i \in DOMAIN es |-> IF i \in dropped THEN <<>> ELSE es[i]],
         len |-> l - Cardinality(dropped)]

Retain(keep) ==
    /\ handle = <<>>
    /\ \E r \in {RetainResult(entries, len, keep)} :
           /\ entries' = r.entries
           /\ len' = r.len
    /\ last' = [Call("retain", 0, 0, <<>>, 0, <<>>) EXCEPT
                    !.visited = { i \in Slots : entries[i] # <<>> },
                    !.kept = keep]
    /\ UNCHANGED <<cfg, n, handle, conform>>


\* The first loop of entry that keeps the first empty slot it sees.
RECURSIVE EntryScanFirstEmpty(_, _, _, _)
EntryScanFirstEmpty(es, key, idxs, empty_index) ==
    IF idxs = <<>> THEN
        IF empty_index = <<>> THEN <<0, 0>> ELSE <<1, empty_index[1]>>
    ELSE LET index == Head(idxs)
         IN  IF es[index] = <<>> THEN
                 EntryScanFirstEmpty(es, key, Tail(idxs),
                                     IF empty_index = <<>> THEN <<index>>
                                     ELSE empty_index)
             ELSE IF es[index][1] = key THEN <<2, index>>
             ELSE EntryScanFirstEmpty(es, key, Tail(idxs), empty_index)

\* The first loop of entry: <<2, index>> on the first slot holding key,
\* otherwise <<1, index>> for the empty slot seen last, otherwise <<0, 0>>.
RECURSIVE EntryScan(_, _, _, _)
EntryScan(es, key, idxs, empty_index) ==
    IF idxs = <<>> THEN
        IF empty_index = <<>> THEN <<0, 0>> ELSE <<1, empty_index[1]>>
    ELSE LET index == Head(idxs)
         IN  IF es[index] = <<>> THEN EntryScan(es, key, Tail(idxs), <<index>>)
             ELSE IF es[index][1] = key THEN <<2, index>>
             ELSE EntryScan(es, key, Tail(idxs), empty_index)

\* entry whose eviction decision leaves the policy's counter where it was.
EntryResultKeepCounter(es, rr, key) ==
    LET s == EntryScan(es, key, Indices(key), <<>>)
    IN  IF s[1] = 2 THEN
            [kind |-> "Occupied", index |-> s[2], n |-> rr, chosen |-> <<>>]
        ELSE IF s[1] = 1 THEN
            [kind |-> "Vacant", index |-> s[2], n |-> rr, chosen |-> <<>>]
        ELSE
            LET c == RoundRobinChoose(rr, Candidates(es, key))
            IN  [kind |-> "Replace", index |-> c.index, n |-> rr,
                 chosen |-> <<c.index>>, offered |-> Candidates(es, key)]

\* entry that hands out a Replace handle for the slot of a stored key.
EntryResultReplaceStored(es, rr, key) ==
    LET s == EntryScan(es, key, Indices(key), <<>>)
    IN  IF s[1] = 2 THEN
            [kind |-> "Replace", index |-> s[2], n |-> rr, chosen |-> <<>>]
        ELSE IF s[1] = 1 THEN
            [kind |-> "Vacant", index |-> s[2], n |-> rr, chosen |-> <<>>]
        ELSE
            LET c == RoundRobinChoose(rr, Candidates(es, key))
            IN  [kind |-> "Replace", index |-> c.index, n |-> c.n,
                 chosen |-> <<c.index>>, offered |-> Candidates(es, key)]

\* AssociativeCache::entry: the handle's kind and index, and the counter.
EntryResult(es, rr, key) ==
    LET s == EntryScan(es, key, Indices(key), <<>>)
    IN  IF s[1] = 2 THEN
            [kind |-> "Occupied", index |-> s[2], n |-> rr, chosen |-> <<>>]
        ELSE IF s[1] = 1 THEN
            [kind |-> "Vacant", index |-> s[2], n |-> rr, chosen |-> <<>>]
        ELSE
            LET c == RoundRobinChoose(rr, Candidates(es, key))
            IN  [kind |-> "Replace", index |-> c.index, n |-> c.n,
                 chosen |-> <<c.index>>, offered |-> Candidates(es, key)]

\* entry that empties the slot it chose for replacement straight away.
EntryTakesAtOnce(key) ==
    /\ handle = <<>>
    /\ \E r \in {EntryResult(entries, n, key)} :
           /\ handle' = [kind |-> r.kind, index |-> r.index, query |-> key]
           /\ n' = r.n
           /\ entries' = IF r.kind = "Replace"
                         THEN [entries EXCEPT ![r.index] = <<>>] ELSE entries
           /\ len' = IF r.kind = "Replace" THEN len - 1 ELSE len
           /\ last' = [Call("entry", key, 0, <<>>, r.index, r.chosen) EXCEPT
                        !.hooks = IF r.kind = "Occupied"
                                  THEN <<OnHit(r.index)>> ELSE <<>>,
                        !.offered = IF r.chosen = <<>> THEN <<>>
                                    ELSE r.offered]
    /\ UNCHANGED <<cfg, conform>>

\* AssociativeCache::entry: the handle borrows the cache until it is consumed
\* or dropped.
Entry(key) ==
    /\ handle = <<>>
    /\ \E r \in {EntryResult(entries, n, key)} :
           /\ handle' = [kind |-> r.kind, index |-> r.index, query |-> key]
           /\ n' = r.n
           /\ last' = [Call("entry", key, 0, <<>>, r.index, r.chosen) EXCEPT
                        !.hooks = IF r.kind = "Occupied"
                                  THEN <<OnHit(r.index)>> ELSE <<>>,
                        !.offered = IF r.chosen = <<>> THEN <<>>
                                    ELSE r.offered]
    /\ UNCHANGED <<cfg, entries, len, conform>>

\* Entry::or_insert_with; make_key and make_val are what the closures return.
\* made tells whether the closures were invoked.
OrInsertWithResultNoGrow(es, l, h, make_key, make_val) ==
    IF h.kind = "Occupied" THEN
        [entries |-> es, len |-> l, ret |-> <<es[h.index][2]>>, made |-> FALSE]
    ELSE
        [entries |-> [es EXCEPT ![h.index] = <<make_key, make_val>>],
         len |-> l, ret |-> <<make_val>>, made |-> TRUE]

\* or_insert_with that counts the pair in whatever the handle's kind.
OrInsertWithResultAlwaysGrow(es, l, h, make_key, make_val) ==
    IF h.kind = "Occupied" THEN
        [entries |-> es, len |-> l, ret |-> <<es[h.index][2]>>, made |-> FALSE]
    ELSE
        [entries |-> [es EXCEPT ![h.index] = <<make_key, make_val>>],
         len |-> l + 1, ret |-> <<make_val>>, made |-> TRUE]

OrInsertWithResult(es, l, h, make_key, make_val) ==
    IF h.kind = "Occupied" THEN
        [entries |-> es, len |-> l, ret |-> <<es[h.index][2]>>, made |-> FALSE]
    ELSE
        [entries |-> [es EXCEPT ![h.index] = <<make_key, make_val>>],
         len |-> IF h.kind = "Vacant" THEN l + 1 ELSE l,
         ret |-> <<make_val>>, made |-> TRUE]

OrInsertWith(make_key, make_val) ==
    /\ handle # <<>>
    /\ handle.index < CAPACITY
    /\ \E r \in {OrInsertWithResult(entries, len, handle, make_key, make_val)} :
           /\ entries' = r.entries
           /\ len' = r.len
           /\ last' = [Call("or_insert_with", handle.query, make_val, r.ret,
                            handle.index, <<>>) EXCEPT
                        !.made = r.made, !.after = last.op,
                        !.kind = handle.kind,
                        !.hooks = IF r.made THEN <<OnInsert(handle.index)>>
                                  ELSE <<>>]
    /\ conform' = (conform /\ (handle.kind = "Occupied" \/ make_key = handle.query))
    /\ handle' = <<>>
    /\ UNCHANGED <<cfg, n>>

\* take_entry_that_will_be_replaced without len -= 1.
TakeResultKeepLen(es, l, h) ==
    IF h.kind = "Replace" THEN
        [entries |-> [es EXCEPT ![h.index] = <<>>], len |-> l,
         kind |-> "Vacant", ret |-> es[h.index]]
    ELSE
        [entries |-> es, len |-> l, kind |-> h.kind, ret |-> <<>>]

\* take_entry_that_will_be_replaced that empties the slot and returns None.
TakeResultReturnNothing(es, l, h) ==
    IF h.kind = "Replace" THEN
        [entries |-> [es EXCEPT ![h.index] = <<>>], len |-> l - 1,
         kind |-> "Vacant", ret |-> <<>>]
    ELSE
        [entries |-> es, len |-> l, kind |-> h.kind, ret |-> <<>>]

\* Entry::take_entry_that_will_be_replaced
TakeResult(es, l, h) ==
    IF h.kind = "Replace" THEN
        [entries |-> [es EXCEPT ![h.index] = <<>>], len |-> l - 1,
         kind |-> "Vacant", ret |-> es[h.index]]
    ELSE
        [entries |-> es, len |-> l, kind |-> h.kind, ret |-> <<>>]

\* take_entry_that_will_be_replaced that leaves the handle's kind as it was.
TakeEntryKeepKind ==
    /\ handle # <<>>
    /\ handle.index < CAPACITY
    /\ \E r \in {TakeResult(entries, len, handle)} :
           /\ entries' = r.entries
           /\ len' = r.len
           /\ handle' = handle
           /\ last' = [Call("take", handle.query, 0, r.ret, handle.index, <<>>)
                           EXCEPT !.kind = handle.kind]
    /\ UNCHANGED <<cfg, n, conform>>

TakeEntryThatWillBeReplaced ==
    /\ handle # <<>>
    /\ handle.index < CAPACITY
    /\ \E r \in {TakeResult(entries, len, handle)} :
           /\ entries' = r.entries
           /\ len' = r.len
           /\ handle' = [handle EXCEPT !.kind = r.kind]
           /\ last' = [Call("take", handle.query, 0, r.ret, handle.index, <<>>)
                           EXCEPT !.kind = handle.kind]
    /\ UNCHANGED <<cfg, n, conform>>

\* A drop that hands the position offered to the handle back to the policy.
DropEntryRewinds ==
    /\ handle # <<>>
    /\ handle' = <<>>
    /\ n' = IF handle.kind = "Replace" THEN n - 1 ELSE n
    /\ last' = [Call("drop", handle.query, 0, <<>>, handle.index, <<>>)
                    EXCEPT !.kind = handle.kind]
    /\ UNCHANGED <<cfg, entries, len, conform>>

\* The handle goes out of scope without or_insert_with.
DropEntry ==
    /\ handle # <<>>
    /\ handle' = <<>>
    /\ last' = [Call("drop", handle.query, 0, <<>>, handle.index, <<>>)
                    EXCEPT !.kind = handle.kind]
    /\ UNCHANGED <<cfg, entries, len, n, conform>>

\* The harness is not running.
NoHarness == UNCHANGED <<expected, status>>
\* No scripted trace is followed.
NoTrace == UNCHANGED step
\* No policy is called on its own.
NoBench == UNCHANGED <<cands, picked>>
\* No instant is read.
NoLru == UNCHANGED <<now, used>>
\* The calls of a caller that uses the cache and nothing else.
CacheOnly == NoHarness /\ NoTrace /\ NoBench /\ NoLru

\* The cache stays as constructed while a policy or a strategy is called on
\* its own.
NoCache == UNCHANGED <<cfg, entries, len, n, handle, last, conform>>

\* or_insert_with by a caller that keeps the make_key contract.
OrInsertWithQueried ==
    /\ handle # <<>>
    /\ \E mv \in Vals : OrInsertWith(handle.query, mv)

\* or_insert_with by a caller whose make_key may return any key.
OrInsertWithAny ==
    /\ handle # <<>>
    /\ \E mk \in Keys, mv \in Vals : OrInsertWith(mk, mv)

Next ==
    \/ (\E k \in Keys, v \in Vals : Insert(k, v)) /\ CacheOnly
    \/ (\E k \in Keys : Get(k)) /\ CacheOnly
    \/ (\E k \in Keys : GetMut(k)) /\ CacheOnly
    \/ (\E k \in Keys : Remove(k)) /\ CacheOnly
    \/ (\E keep \in SUBSET { i \in Slots : entries[i] # <<>> } : Retain(keep))
           /\ CacheOnly
    \/ (\E k \in Keys : Entry(k)) /\ CacheOnly
    \/ OrInsertWithQueried /\ CacheOnly
    \/ TakeEntryThatWillBeReplaced /\ CacheOnly
    \/ DropEntry /\ CacheOnly

Spec == Init /\ [][Next]_vars

NextAnyKey ==
    \/ (\E k \in Keys, v \in Vals : Insert(k, v)) /\ CacheOnly
    \/ (\E k \in Keys : Get(k)) /\ CacheOnly
    \/ (\E k \in Keys : GetMut(k)) /\ CacheOnly
    \/ (\E k \in Keys : Remove(k)) /\ CacheOnly
    \/ (\E keep \in SUBSET { i \in Slots : entries[i] # <<>> } : Retain(keep))
           /\ CacheOnly
    \/ (\E k \in Keys : Entry(k)) /\ CacheOnly
    \/ OrInsertWithAny /\ CacheOnly
    \/ TakeEntryThatWillBeReplaced /\ CacheOnly
    \/ DropEntry /\ CacheOnly

SpecAnyKey == Init /\ [][NextAnyKey]_vars

\* A capacity of the caller's own that is not a multiple of the
\* associativity: CAPACITY = 3 with PointerTwoWay over *mut u8 keys.
OddConfigs == { [capacity |-> 3, ways |-> 2, align |-> 1] }

OddInit == \E c \in OddConfigs : New(c) /\ AtRest

SpecOdd == OddInit /\ [][NextAnyKey]_vars

\* Iter::next called until it returns None, from storage position i on: the
\* pairs of the occupied slots in storage order.
RECURSIVE IterFrom(_, _)
IterFrom(es, i) ==
    IF i \notin DOMAIN es THEN <<>>
    ELSE IF es[i] = <<>> THEN IterFrom(es, i + 1)
    ELSE <<es[i]>> \o IterFrom(es, i + 1)

\* Iter::next that also yields the empty slots it passes.
RECURSIVE IterStepsYieldHoles(_, _, _)
IterStepsYieldHoles(es, i, l) ==
    IF i \notin DOMAIN es THEN <<>>
    ELSE <<[slot |-> i, item |-> es[i], len |-> l - 1, ok |-> l > 0]>>
             \o IterStepsYieldHoles(es, i + 1, l - 1)

\* The calls of Iter::next (IterMut::next and IntoIter::next have the same
\* body) that return a pair, from storage position i on with the counter at
\* l: the slot and the pair yielded, the counter size_hint reports after the
\* call, and whether debug_assert!(self.len > 0) held.
RECURSIVE IterSteps(_, _, _)
IterSteps(es, i, l) ==
    IF i \notin DOMAIN es THEN <<>>
    ELSE IF es[i] = <<>> THEN IterSteps(es, i + 1, l)
    ELSE <<[slot |-> i, item |-> es[i], len |-> l - 1, ok |-> l > 0]>>
             \o IterSteps(es, i + 1, l - 1)

\* into_iter: the iterator starts at the first slot with len: self.len().
IntoIter(es, l) == IterSteps(es, 0, l)

\* HashMap::get, HashMap::insert and HashMap::remove of the reference map.
MapGet(m, k) == IF k \in DOMAIN m THEN <<m[k]>> ELSE <<>>
MapInsert(m, k, v) == [x \in DOMAIN m \cup {k} |-> IF x = k THEN v ELSE m[x]]
MapRemove(m, k) == [x \in DOMAIN m \ {k} |-> m[x]]

\* The three checks at the top of the loop body of MethodCalls::run.
HarnessChecks(es, l, exp) ==
    /\ l = Cardinality(DOMAIN exp)
    /\ \A k \in DOMAIN exp : GetResult(es, k) = <<exp[k]>>
    /\ \E it \in {IterFrom(es, 0)} :
           \A j \in 1..Len(it) : MapGet(exp, it[j][1]) = <<it[j][2]>>

\* The MethodCall::Insert arm of MethodCalls::run: the reference map and the
\* verdict, given what cache.insert returned.
HarnessInsertResult(exp, key, val, ret) ==
    LET old == MapGet(exp, key)
        e1  == MapInsert(exp, key, val)
    IN  IF ret = <<>> /\ old = <<>> THEN [expected |-> e1, status |-> "ok"]
        ELSE IF ret # <<>> /\ old # <<>> /\ ret[1] = key /\ ret[2] = old[1] THEN
            [expected |-> e1, status |-> "ok"]
        ELSE IF ret # <<>> /\ old = <<>> THEN
            IF ret[1] # key
            THEN [expected |-> MapRemove(e1, ret[1]),
                  status |-> IF <<ret[2]>> = MapGet(e1, ret[1]) THEN "ok" ELSE "bail"]
            ELSE [expected |-> e1, status |-> "bail"]
        ELSE [expected |-> e1, status |-> "bail"]

\* The MethodCall::Remove arm of MethodCalls::run.
HarnessRemoveResult(exp, key, ret) ==
    [expected |-> MapRemove(exp, key),
     status |-> IF ret = MapGet(exp, key) THEN "ok" ELSE "bail"]

\* The MethodCall::Insert arm applied to the cache and the reference map.
HarnessInsert(key, val) ==
    /\ Insert(key, val)
    /\ \E h \in {HarnessInsertResult(expected, key, val, last'.ret)} :
           /\ expected' = h.expected
           /\ status' = h.status

\* The MethodCall::Remove arm applied to the cache and the reference map.
HarnessRemove(key) ==
    /\ Remove(key)
    /\ \E h \in {HarnessRemoveResult(expected, key, last'.ret)} :
           /\ expected' = h.expected
           /\ status' = h.status

\* The checks at the top of the loop body failed: run returns Err.
HarnessBail ==
    /\ status' = "bail"
    /\ UNCHANGED <<cfg, entries, len, n, handle, last, conform, expected>>

\* One iteration of the loop of MethodCalls::run.
HarnessIteration ==
    /\ status = "ok"
    /\ IF HarnessChecks(entries, len, expected) THEN
           \/ \E k \in HarnessKeys, v \in Vals : HarnessInsert(k, v)
           \/ \E k \in HarnessKeys : HarnessRemove(k)
       ELSE HarnessBail

HarnessInit == \E c \in HarnessConfigs : New(c) /\ AtRest

HarnessNext == HarnessIteration /\ NoTrace /\ NoBench /\ NoLru

\* MethodCalls::run::<Capacity4, PointerTwoWay, RoundRobinReplacement>
SpecHarness == HarnessInit /\ [][HarnessNext]_vars

(***************************************************************************)
(* The scripted trace of tests::insert: a Capacity4, PointerTwoWay,        *)
(* RoundRobinReplacement cache over *mut u8 keys, each key inserted with   *)
(* itself as its value.  A caller may leave the script at any call.        *)
(***************************************************************************)

TraceConfigs == { [capacity |-> 4, ways |-> 2, align |-> 1] }

\* The keys of tests::insert, in the order it inserts them.
Script == <<0, 1, 2, 3, 4, 6, 5, 7>>

TraceKeys == { Script[j] : j \in 1..Len(Script) }

\* cache.insert(ptr, ptr): the next call of the script, or a call off it.
TraceInsert(key) ==
    /\ Insert(key, key)
    /\ step' = IF step >= 0 /\ step < Len(Script) /\ Script[step + 1] = key
               THEN step + 1 ELSE -1

\* cache.get(&ptr) between the script's calls or after them.
TraceGet(key) ==
    /\ Get(key)
    /\ UNCHANGED step

TraceInit == \E c \in TraceConfigs : New(c) /\ AtRest

TraceNext ==
    \/ (\E k \in TraceKeys : TraceInsert(k)) /\ NoHarness /\ NoBench /\ NoLru
    \/ (\E k \in TraceKeys : TraceGet(k)) /\ NoHarness /\ NoBench /\ NoLru

SpecTrace == TraceInit /\ [][TraceNext]_vars

(***************************************************************************)
(* The eviction decisions of one cache with two groups of slots, as in     *)
(* tests::insert: Capacity4 with PointerTwoWay and                         *)
(* RoundRobinReplacement over *mut u8 keys, every value being its key.     *)
(* picked keeps the decisions made since construction.                     *)
(***************************************************************************)

SharedConfigs == { [capacity |-> 4, ways |-> 2, align |-> 1] }

SharedKeys == 0..MaxSharedKey

\* One call of choose_for_replacement made for key by the operation op: the
\* first slot of the key's group and the position of the slot returned, and
\* whether op came right after a pending-replace handle was dropped.
Decision(op, key, index) ==
    [op |-> op, group |-> Indices(key)[1],
     position |-> PositionOf(index, Candidates(entries, key)),
     dropped |-> (last.op = "drop" /\ last.kind = "Replace")]

\* The call just made has or has not asked the policy.
Decided(key) ==
    picked' = IF last'.chosen = <<>> THEN picked
              ELSE Append(picked, Decision(last'.op, key, last'.chosen[1]))

SharedInsert(key) ==
    /\ Len(picked) < MaxDecisions
    /\ Insert(key, key)
    /\ Decided(key)
    /\ UNCHANGED cands

SharedEntry(key) ==
    /\ Len(picked) < MaxDecisions
    /\ Entry(key)
    /\ Decided(key)
    /\ UNCHANGED cands

SharedOrInsertWith ==
    /\ handle # <<>>
    /\ OrInsertWith(handle.query, handle.query)

SharedInit == \E c \in SharedConfigs : New(c) /\ AtRest

SharedNext ==
    \/ (\E k \in SharedKeys : SharedInsert(k)) /\ NoHarness /\ NoTrace /\ NoLru
    \/ (\E k \in SharedKeys : SharedEntry(k)) /\ NoHarness /\ NoTrace /\ NoLru
    \/ SharedOrInsertWith /\ CacheOnly
    \/ DropEntry /\ CacheOnly

SpecShared == SharedInit /\ [][SharedNext]_vars

(***************************************************************************)
(* A cache with a Replacement implementation of the caller's own, whose    *)
(* choose_for_replacement may return any usize: Capacity2 with             *)
(* PointerDirectMapped, built with or without debug assertions.  The       *)
(* index CAPACITY stands for every index out of range.                     *)
(***************************************************************************)

PolicyConfigs ==
    { [capacity |-> 2, ways |-> 1, align |-> 1, debug |-> d] : d \in BOOLEAN }

\* What the caller's choose_for_replacement may return.
PolicyReturns == 0..CAPACITY

\* insert, the eviction path, when the policy returns index: the
\* debug_assert on the candidates, then the two assertions.
CustomInsertEvict(es, l, key, value, index) ==
    LET ok == /\ cfg.debug => index \in IndexSet(key)
              /\ index < CAPACITY
              /\ es[index] # <<>>
    IN  [entries |-> IF ok THEN [es EXCEPT ![index] = <<key, value>>] ELSE es,
         len |-> l,
         ret |-> IF ok THEN es[index] ELSE <<>>,
         index |-> index, chosen |-> <<index>>, ok |-> ok]

\* insert with the caller's policy; index is read on the eviction path only.
CustomInsertResult(es, l, key, value, index) ==
    LET best == InsertScan(es, key, Indices(key), <<0, 0>>)
    IN  IF best[1] = 1 THEN InsertNew(es, l, 0, key, value, best[2])
        ELSE IF best[1] = 2 THEN InsertSame(es, l, 0, key, value, best[2])
        ELSE CustomInsertEvict(es, l, key, value, index)

CustomInsert(key, value, index) ==
    /\ handle = <<>>
    /\ \E r \in {CustomInsertResult(entries, len, key, value, index)} :
           /\ entries' = r.entries
           /\ len' = r.len
           /\ last' = [Call("insert", key, value, r.ret, r.index, r.chosen)
                           EXCEPT !.panicked = ~r.ok]
    /\ UNCHANGED <<cfg, n, handle, conform>>

\* entry with the caller's policy: the index returned goes into the handle
\* as it is.
CustomEntryResult(es, key, index) ==
    LET s == EntryScan(es, key, Indices(key), <<>>)
    IN  IF s[1] = 2 THEN
            [kind |-> "Occupied", index |-> s[2], chosen |-> <<>>]
        ELSE IF s[1] = 1 THEN
            [kind |-> "Vacant", index |-> s[2], chosen |-> <<>>]
        ELSE
            [kind |-> "Replace", index |-> index, chosen |-> <<index>>]

CustomEntry(key, index) ==
    /\ handle = <<>>
    /\ \E r \in {CustomEntryResult(entries, key, index)} :
           /\ handle' = [kind |-> r.kind, index |-> r.index, query |-> key]
           /\ last' = [Call("entry", key, 0, <<>>, r.index, r.chosen) EXCEPT
                        !.hooks = IF r.kind = "Occupied"
                                  THEN <<OnHit(r.index)>> ELSE <<>>]
    /\ UNCHANGED <<cfg, entries, len, n, conform>>

\* or_insert_with panics on its first assertion when the handle's index is
\* out of range; the handle is consumed either way.
CustomOrInsertWith(make_val) ==
    /\ handle # <<>>
    /\ \/ OrInsertWith(handle.query, make_val)
       \/ /\ handle.index >= CAPACITY
          /\ handle' = <<>>
          /\ last' = [Call("or_insert_with", handle.query, make_val, <<>>,
                           handle.index, <<>>) EXCEPT
                       !.after = last.op, !.kind = handle.kind,
                       !.panicked = TRUE]
          /\ UNCHANGED <<cfg, entries, len, n, conform>>

PolicyInit == \E c \in PolicyConfigs : New(c) /\ AtRest

PolicyNext ==
    \/ (\E k \in Keys, v \in Vals, i \in PolicyReturns : CustomInsert(k, v, i))
           /\ CacheOnly
    \/ (\E k \in Keys, i \in PolicyReturns : CustomEntry(k, i)) /\ CacheOnly
    \/ (\E v \in Vals : CustomOrInsertWith(v)) /\ CacheOnly
    \/ DropEntry /\ CacheOnly

SpecPolicy == PolicyInit /\ [][PolicyNext]_vars

(***************************************************************************)
(* A cache with an Indices implementation of the caller's own that yields  *)
(* an index out of range for some keys: Capacity2 with the candidates of   *)
(* PointerTwoWay and, for the odd keys, the index CAPACITY before or after *)
(* them.                                                                   *)
(***************************************************************************)

RangeConfigs ==
    { [capacity |-> 2, ways |-> 2, align |-> 1, at |-> a] :
          a \in {"first", "last"} }

\* The keys the strategy yields an index out of range for.
OutOfRangeKeys == { k \in Keys : k % 2 = 1 }

\* I::indices(&key) of this strategy.
RangeIndices(key) ==
    IF key \notin OutOfRangeKeys THEN Indices(key)
    ELSE IF cfg.at = "first" THEN <<CAPACITY>> \o Indices(key)
    ELSE Indices(key) \o <<CAPACITY>>

\* The loop that passes over an index out of range without asserting.
RECURSIVE LookupWalkUnchecked(_, _, _)
LookupWalkUnchecked(es, key, idxs) ==
    IF idxs = <<>> THEN [panicked |-> FALSE, found |-> <<>>]
    ELSE IF Head(idxs) >= CAPACITY THEN LookupWalkUnchecked(es, key, Tail(idxs))
    ELSE IF es[Head(idxs)] # <<>> /\ es[Head(idxs)][1] = key THEN
        [panicked |-> FALSE, found |-> <<Head(idxs)>>]
    ELSE LookupWalkUnchecked(es, key, Tail(idxs))

\* The loop of get, get_mut, remove and entry: each index is asserted to be
\* in range when it is reached, and the loop returns on the slot holding key.
RECURSIVE LookupWalk(_, _, _)
LookupWalk(es, key, idxs) ==
    IF idxs = <<>> THEN [panicked |-> FALSE, found |-> <<>>]
    ELSE IF Head(idxs) >= CAPACITY THEN [panicked |-> TRUE, found |-> <<>>]
    ELSE IF es[Head(idxs)] # <<>> /\ es[Head(idxs)][1] = key THEN
        [panicked |-> FALSE, found |-> <<Head(idxs)>>]
    ELSE LookupWalk(es, key, Tail(idxs))

\* The first loop of insert reaches every index, so it panics when any of
\* them is out of range.
InsertWalkPanics(key) ==
    \E j \in 1..Len(RangeIndices(key)) : RangeIndices(key)[j] >= CAPACITY

\* A call that panicked on its assertion: nothing was written before it.
Panic(op, key, val) ==
    /\ handle = <<>>
    /\ last' = [Call(op, key, val, <<>>, 0, <<>>) EXCEPT !.panicked = TRUE]
    /\ UNCHANGED <<cfg, entries, len, n, handle, conform>>

RangeInsert(key, value) ==
    IF InsertWalkPanics(key) THEN Panic("insert", key, value)
    ELSE Insert(key, value)

RangeGet(key) ==
    IF LookupWalk(entries, key, RangeIndices(key)).panicked
    THEN Panic("get", key, 0)
    ELSE Get(key)

RangeGetMut(key) ==
    IF LookupWalk(entries, key, RangeIndices(key)).panicked
    THEN Panic("get_mut", key, 0)
    ELSE GetMut(key)

RangeRemove(key) ==
    IF LookupWalk(entries, key, RangeIndices(key)).panicked
    THEN Panic("remove", key, 0)
    ELSE Remove(key)

RangeEntry(key) ==
    IF LookupWalk(entries, key, RangeIndices(key)).panicked
    THEN Panic("entry", key, 0)
    ELSE Entry(key)

RangeInit == \E c \in RangeConfigs : New(c) /\ AtRest

RangeNext ==
    \/ (\E k \in Keys, v \in Vals : RangeInsert(k, v)) /\ CacheOnly
    \/ (\E k \in Keys : RangeGet(k)) /\ CacheOnly
    \/ (\E k \in Keys : RangeGetMut(k)) /\ CacheOnly
    \/ (\E k \in Keys : RangeRemove(k)) /\ CacheOnly
    \/ (\E k \in Keys : RangeEntry(k)) /\ CacheOnly
    \/ OrInsertWithAny /\ CacheOnly
    \/ TakeEntryThatWillBeReplaced /\ CacheOnly
    \/ DropEntry /\ CacheOnly

SpecRange == RangeInit /\ [][RangeNext]_vars

(***************************************************************************)
(* The provided Indices implementations called on their own, as            *)
(* indices.rs's tests call them.  For the hash-based ones cfg.hash is the  *)
(* type parameter H: what hash_to_usize(H::default(), key) returns for     *)
(* each key.  picked keeps the last two calls.                             *)
(***************************************************************************)

\* The associativities of define_hash_n_way and define_pointer_n_way that
\* fit the capacities.
Ways == {1, 2, 4}

HashKeys == 0..MaxHashKey

HashConfigs ==
    { [capacity |-> c, ways |-> w, align |-> 1, hash |-> h] :
          c \in 1..MaxCapacity, w \in Ways, h \in [HashKeys -> 0..MaxHash] }

\* hash_to_usize(H::default(), key)
HashToUsize(key) == cfg.hash[key]

\* The base taken modulo the capacity instead of the number of groups.
HashIndicesUngrouped(key) ==
    LET base == HashToUsize(key) % CAPACITY
    IN  [j \in 1..cfg.ways |-> base + (j - 1)]

\* define_hash_n_way: the range base..base + n as a sequence.
HashIndices(key) ==
    LET base == (HashToUsize(key) % (CAPACITY \div cfg.ways)) * cfg.ways
    IN  [j \in 1..cfg.ways |-> base + (j - 1)]

\* The last two calls of a strategy, the newest last.
Recent(calls, call) ==
    IF calls = <<>> THEN <<call>> ELSE <<calls[Len(calls)], call>>

\* <$name as Indices<T, C>>::indices(&key); the assertion on the capacity
\* panics before anything is computed.
HashIndicesCall(key) ==
    /\ picked' = Recent(picked,
                        IF CAPACITY >= cfg.ways
                        THEN [key |-> key, indices |-> HashIndices(key),
                              panicked |-> FALSE]
                        ELSE [key |-> key, indices |-> <<>>,
                              panicked |-> TRUE])
    /\ UNCHANGED cands
    /\ NoCache

HashInit == (\E c \in HashConfigs : New(c)) /\ AtRest

HashNext ==
    (\E k \in HashKeys : HashIndicesCall(k)) /\ NoHarness /\ NoTrace /\ NoLru

SpecHash == HashInit /\ [][HashNext]_vars

\* The address-based strategies over *mut u8 and *mut u64 keys.
PointerConfigs ==
    { [capacity |-> c, ways |-> w, align |-> a] :
          c \in 1..MaxCapacity, w \in Ways, a \in {1, 8} }

\* <$name as Indices<*mut T, C>>::indices(&ptr)
PointerIndicesCall(ptr) ==
    /\ picked' = Recent(picked,
                        IF CAPACITY >= cfg.ways
                        THEN [key |-> ptr, indices |-> Indices(ptr),
                              panicked |-> FALSE]
                        ELSE [key |-> ptr, indices |-> <<>>,
                              panicked |-> TRUE])
    /\ UNCHANGED cands
    /\ NoCache

PointerInit == (\E c \in PointerConfigs : New(c)) /\ AtRest

PointerNext ==
    (\E ptr \in HarnessKeys : PointerIndicesCall(ptr))
        /\ NoHarness /\ NoTrace /\ NoLru

SpecPointer == PointerInit /\ [][PointerNext]_vars

(***************************************************************************)
(* The replacement policies called on their own, as lru.rs's tests call    *)
(* them: Replacement<_, Capacity4>::choose_for_replacement on an           *)
(* enumeration of values.                                                  *)
(***************************************************************************)

BenchConfigs == { [capacity |-> 4, ways |-> 2, align |-> 1] }

\* The sequences of count (index, value) pairs of one group of slots.
Offers(count) ==
    { [j \in 1..count |-> <<base + (j - 1), vs[j]>>] :
          base \in {0, count}, vs \in [1..count -> Vals] }

\* A call that leaves the policy's counter where it was.
RoundRobinCallForgetful(offer) ==
    /\ Len(picked) < MaxCalls
    /\ Len(offer) > 0
    /\ \E r \in {RoundRobinChoose(n, offer)} :
           /\ n' = n
           /\ picked' = Append(picked, PositionOf(r.index, offer))
    /\ cands' = offer
    /\ UNCHANGED <<cfg, entries, len, handle, last, conform>>

\* RoundRobinReplacement::choose_for_replacement(candidates); picked keeps
\* the positions returned so far.
RoundRobinCall(offer) ==
    /\ Len(picked) < MaxCalls
    /\ Len(offer) > 0
    /\ \E r \in {RoundRobinChoose(n, offer)} :
           /\ n' = r.n
           /\ picked' = Append(picked, PositionOf(r.index, offer))
    /\ cands' = offer
    /\ UNCHANGED <<cfg, entries, len, handle, last, conform>>

\* RoundRobinReplacement::default() and the candidate count of the calls.
RoundRobinInit ==
    /\ \E c \in BenchConfigs : New(c)
    /\ step = 0
    /\ \E count \in 1..MaxCands : cands \in Offers(count)
    /\ picked = <<>>
    /\ now = 0
    /\ used = <<>>

RoundRobinNext ==
    (\E offer \in Offers(Len(cands)) : RoundRobinCall(offer))
        /\ NoHarness /\ NoTrace /\ NoLru

SpecRoundRobin == RoundRobinInit /\ [][RoundRobinNext]_vars

\* WithLruTimestamp: a value is <<inner, timestamp>>.
WithLruTimestamp(inner, timestamp) == <<inner, timestamp>>

\* WithLruTimestamp::get_timestamp
GetTimestamp(value) == value[2]

\* WithLruTimestamp::update_timestamp at the instant t.
UpdateTimestamp(value, t) == <<value[1], t>>

\* The loop of LruReplacement::choose_for_replacement that keeps the earlier
\* candidate when two timestamps are equal.
RECURSIVE LruScanKeepFirst(_, _)
LruScanKeepFirst(candidates, lru) ==
    IF candidates = <<>> THEN lru
    ELSE LET index     == Head(candidates)[1]
             timestamp == GetTimestamp(Head(candidates)[2])
         IN  LruScanKeepFirst(Tail(candidates),
                              IF lru # <<>> /\ lru[1] <= timestamp
                              THEN lru ELSE <<timestamp, index>>)

\* The loop of LruReplacement::choose_for_replacement: lru is None (<<>>) or
\* Some((t, i)) (<<t, i>>).
RECURSIVE LruScan(_, _)
LruScan(candidates, lru) ==
    IF candidates = <<>> THEN lru
    ELSE LET index     == Head(candidates)[1]
             timestamp == GetTimestamp(Head(candidates)[2])
         IN  LruScan(Tail(candidates),
                     IF lru # <<>> /\ lru[1] < timestamp
                     THEN lru ELSE <<timestamp, index>>)

\* LruReplacement::choose_for_replacement: lru.unwrap().1
LruChoose(candidates) == LruScan(candidates, <<>>)[2]

\* candidates.iter().enumerate() over values with any timestamps.
LruOffers(count) ==
    { [j \in 1..count |-> <<j - 1, WithLruTimestamp(0, ts[j])>>] :
          ts \in [1..count -> 0..MaxClock] }

\* LruReplacement::choose_for_replacement(candidates); unwrap panics on
\* an empty enumeration.
LruCall ==
    /\ picked = <<>>
    /\ LruScan(cands, <<>>) # <<>>
    /\ picked' = <<LruChoose(cands)>>
    /\ UNCHANGED cands
    /\ NoCache

LruChooseInit ==
    /\ \E c \in BenchConfigs : New(c)
    /\ step = 0
    /\ \E count \in 1..MaxCands : cands \in LruOffers(count)
    /\ picked = <<>>
    /\ now = 0
    /\ used = <<>>

LruChooseNext == LruCall /\ NoHarness /\ NoTrace /\ NoLru

SpecLruChoose == LruChooseInit /\ [][LruChooseNext]_vars

(***************************************************************************)
(* The cache under LruReplacement with WithLruTimestamp values.  Every     *)
(* call that reads Instant::now() reads a later instant than the call      *)
(* before it; a value handed to insert was constructed, and so stamped, at *)
(* the instant of the call or at any instant before it.                    *)
(***************************************************************************)

LruConfigs == { [capacity |-> 2, ways |-> 2, align |-> 1] }

\* The instant is read and time moves on.
Tick == now' = now + 1

\* The eviction path of insert with LruReplacement as the policy.
LruInsertEvict(es, l, key, value) ==
    LET index == LruChoose(Candidates(es, key))
        inb   == index \in DOMAIN es /\ es[index] # <<>>
    IN  [entries |-> IF inb THEN [es EXCEPT ![index] = <<key, value>>] ELSE es,
         len |-> l,
         ret |-> IF inb THEN es[index] ELSE <<>>,
         index |-> index, chosen |-> <<index>>, ok |-> inb]

\* AssociativeCache::insert with LruReplacement: no hook of the policy is
\* called, the value keeps the timestamp it was constructed with.
LruInsertResult(es, l, key, value) ==
    LET best == InsertScan(es, key, Indices(key), <<0, 0>>)
    IN  IF best[1] = 1 THEN InsertNew(es, l, 0, key, value, best[2])
        ELSE IF best[1] = 2 THEN InsertSame(es, l, 0, key, value, best[2])
        ELSE LruInsertEvict(es, l, key, value)

\* cache.insert(key, value) with value = WithLruTimestamp::new(0) made at t.
LruInsert(key, t) ==
    /\ handle = <<>>
    /\ now <= MaxClock
    /\ \E r \in {LruInsertResult(entries, len, key, WithLruTimestamp(0, t))} :
           /\ r.ok
           /\ entries' = r.entries
           /\ len' = r.len
           /\ used' = [used EXCEPT ![r.index] = now]
           /\ last' = Call("insert", key, t, r.ret, r.index, r.chosen)
    /\ Tick
    /\ UNCHANGED <<cfg, n, handle, conform>>

\* on_hit of LruReplacement on the value in slot index.
LruOnHit(es, index, t) ==
    [es EXCEPT ![index] = <<es[index][1], UpdateTimestamp(es[index][2], t)>>]

\* get and get_mut that never call on_hit.
LruGetNoHit(op, key) ==
    /\ handle = <<>>
    /\ now <= MaxClock
    /\ \E f \in {FindIndex(entries, key, Indices(key))} :
           /\ last' = Call(op, key, 0,
                           IF f = <<>> THEN <<>> ELSE <<entries[f[1]][2]>>,
                           IF f = <<>> THEN 0 ELSE f[1], <<>>)
           /\ UNCHANGED <<entries, used>>
    /\ Tick
    /\ UNCHANGED <<cfg, len, n, handle, conform>>

\* AssociativeCache::get and get_mut (op) with LruReplacement.
LruGet(op, key) ==
    /\ handle = <<>>
    /\ now <= MaxClock
    /\ \E f \in {FindIndex(entries, key, Indices(key))} :
           IF f = <<>> THEN
               /\ last' = Call(op, key, 0, <<>>, 0, <<>>)
               /\ UNCHANGED <<entries, used>>
           ELSE
               /\ entries' = LruOnHit(entries, f[1], now)
               /\ used' = [used EXCEPT ![f[1]] = now]
               /\ last' = [Call(op, key, 0, <<entries'[f[1]][2]>>, f[1], <<>>)
                               EXCEPT !.hooks = <<OnHit(f[1])>>]
    /\ Tick
    /\ UNCHANGED <<cfg, len, n, handle, conform>>

\* AssociativeCache::entry with LruReplacement.
LruEntry(key) ==
    /\ handle = <<>>
    /\ now <= MaxClock
    /\ \E s \in {EntryScan(entries, key, Indices(key), <<>>)} :
           IF s[1] = 2 THEN
               /\ entries' = LruOnHit(entries, s[2], now)
               /\ used' = [used EXCEPT ![s[2]] = now]
               /\ handle' = [kind |-> "Occupied", index |-> s[2], query |-> key]
               /\ last' = [Call("entry", key, 0, <<>>, s[2], <<>>)
                               EXCEPT !.hooks = <<OnHit(s[2])>>]
           ELSE IF s[1] = 1 THEN
               /\ handle' = [kind |-> "Vacant", index |-> s[2], query |-> key]
               /\ last' = Call("entry", key, 0, <<>>, s[2], <<>>)
               /\ UNCHANGED <<entries, used>>
           ELSE
               \E index \in {LruChoose(Candidates(entries, key))} :
                   /\ handle' = [kind |-> "Replace", index |-> index, query |-> key]
                   /\ last' = Call("entry", key, 0, <<>>, index, <<index>>)
                   /\ UNCHANGED <<entries, used>>
    /\ Tick
    /\ UNCHANGED <<cfg, len, n, conform>>

\* Entry::or_insert_with(|| key, || WithLruTimestamp::new(0)) with
\* LruReplacement: on_insert stamps the value written.
LruOrInsertWith ==
    /\ handle # <<>>
    /\ handle.index < CAPACITY
    /\ now <= MaxClock
    /\ \E r \in {OrInsertWithResult(entries, len, handle, handle.query,
                                     WithLruTimestamp(0, now))} :
           /\ entries' = r.entries
           /\ len' = r.len
           /\ used' = IF r.made THEN [used EXCEPT ![handle.index] = now] ELSE used
           /\ last' = [Call("or_insert_with", handle.query, now, r.ret,
                            handle.index, <<>>) EXCEPT
                        !.made = r.made, !.after = last.op,
                        !.kind = handle.kind,
                        !.hooks = IF r.made THEN <<OnInsert(handle.index)>>
                                  ELSE <<>>]
    /\ handle' = <<>>
    /\ Tick
    /\ UNCHANGED <<cfg, n, conform>>

\* AssociativeCache::<_, WithLruTimestamp<_>, _, _, LruReplacement>::default()
LruInit ==
    /\ \E c \in LruConfigs : New(c)
    /\ step = 0
    /\ cands = <<>>
    /\ picked = <<>>
    /\ now = 1
    /\ used = [i \in Slots |-> 0]

LruNext ==
    \/ (\E k \in Keys, t \in 0..MaxClock : t <= now /\ LruInsert(k, t))
           /\ NoHarness /\ NoTrace /\ NoBench
    \/ (\E k \in Keys : LruGet("get", k)) /\ NoHarness /\ NoTrace /\ NoBench
    \/ (\E k \in Keys : LruGet("get_mut", k)) /\ NoHarness /\ NoTrace /\ NoBench
    \/ (\E k \in Keys : LruEntry(k)) /\ NoHarness /\ NoTrace /\ NoBench
    \/ LruOrInsertWith /\ NoHarness /\ NoTrace /\ NoBench
    \/ TakeEntryThatWillBeReplaced /\ NoHarness /\ NoTrace /\ NoBench /\ NoLru
    \/ DropEntry /\ NoHarness /\ NoTrace /\ NoBench /\ NoLru
    \/ (\E k \in Keys : Remove(k)) /\ NoHarness /\ NoTrace /\ NoBench /\ NoLru
    \/ (\E keep \in SUBSET { i \in Slots : entries[i] # <<>> } : Retain(keep))
           /\ NoHarness /\ NoTrace /\ NoBench /\ NoLru

SpecLru == LruInit /\ [][LruNext]_vars

(***************************************************************************)
(* The properties.                                                         *)
(***************************************************************************)

OccupiedSlots == { i \in Slots : entries[i] # <<>> }

\* The slots holding key, whether or not they are candidates of key.
SlotsHolding(es, key) == { i \in DOMAIN es : es[i] # <<>> /\ es[i][1] = key }

\* Some candidate slot of key is empty.
HasEmptyCandidate(es, key) == \E i \in IndexSet(key) : es[i] = <<>>

\* C1: in every state, also while an entry handle is live and after a handle
\* was dropped, len equals the number of occupied slots and 0 <= len <= capacity.
LenCountsOccupied ==
    /\ len = Cardinality(OccupiedSlots)
    /\ 0 <= len
    /\ len <= CAPACITY

\* The state between take_entry_that_will_be_replaced and or_insert_with.
LenCountsOccupiedWitness ==
    /\ last.op = "take"
    /\ last.ret # <<>>
    /\ handle # <<>>

\* C2: placement: every occupied slot is one of the candidate slots of the
\* key it holds (callers keep the make_key contract).
Placement ==
    \A i \in Slots : entries[i] # <<>> => i \in IndexSet(entries[i][1])

\* A Replace handle materialised in the second group of a direct-mapped cache.
PlacementWitness ==
    /\ last.op = "or_insert_with"
    /\ cfg.ways = 1
    /\ last.index = 1
    /\ n > 0

\* C3 as stated: no two occupied slots hold equal keys, whatever the calls.
UniqueKeys ==
    \A i, j \in Slots :
        (entries[i] # <<>> /\ entries[j] # <<>> /\ entries[i][1] = entries[j][1])
            => i = j

\* C3, amended: no two occupied slots hold equal keys as long as every
\* make_key returned a key equal to the key its handle was queried with.
UniqueKeysWhenConform == conform => UniqueKeys

\* A conforming or_insert_with filled the second slot of a two-way group.
UniqueKeysWitness ==
    /\ conform
    /\ last.op = "or_insert_with"
    /\ last.ret = <<last.val>>
    /\ cfg.ways = 2
    /\ len = 2

\* C4: in the differential harness, before every call (and after the last),
\* len equals the reference's size, get returns the reference's value for
\* every reference key, every pair iter yields is in the reference, and no
\* return value ever made the harness bail.
HarnessAgrees ==
    /\ status = "ok"
    /\ HarnessChecks(entries, len, expected)

\* An insert evicted a different key, which the reference then deleted.
HarnessAgreesWitness ==
    /\ status = "ok"
    /\ last.op = "insert"
    /\ last.ret # <<>>
    /\ last.ret[1] # last.key
    /\ Cardinality(DOMAIN expected) = 4

\* C5: insert of a key that is present overwrites the value in the slot that
\* holds it, returns the previous pair, leaves len and every other slot alone
\* and does not consult the replacement policy.
InsertPresentOverwrites ==
    [][ (last'.op = "insert" /\ SlotsHolding(entries, last'.key) # {}) =>
            \E i \in SlotsHolding(entries, last'.key) :
                /\ last'.ret = entries[i]
                /\ entries' = [entries EXCEPT ![i] = <<last'.key, last'.val>>]
                /\ len' = len
                /\ last'.chosen = <<>>
                /\ n' = n ]_vars

\* A present key got a new value while another candidate slot was empty.
InsertPresentWitness ==
    /\ last.op = "insert"
    /\ last.ret # <<>>
    /\ last.ret[1] = last.key
    /\ last.ret[2] # last.val
    /\ cfg.ways = 2
    /\ len < CAPACITY

\* C6: insert of an absent key with an empty candidate slot returns nothing,
\* grows len by one and leaves every stored pair in its slot.
InsertIntoEmptyEvictsNothing ==
    [][ (/\ last'.op = "insert"
         /\ SlotsHolding(entries, last'.key) = {}
         /\ HasEmptyCandidate(entries, last'.key)) =>
            /\ last'.ret = <<>>
            /\ len' = len + 1
            /\ \A i \in Slots : entries[i] # <<>> => entries'[i] = entries[i]
            /\ \E i \in IndexSet(last'.key) :
                   entries[i] = <<>> /\ entries'[i] = <<last'.key, last'.val>> ]_vars

\* An absent key went into the last empty slot next to a stored pair.
InsertIntoEmptyWitness ==
    /\ last.op = "insert"
    /\ last.ret = <<>>
    /\ len = 2

\* C7: insert of a key whose candidate slots all hold other keys: the policy's
\* index is a candidate, the pair stored there is what insert returns, the
\* slot then holds the new pair and len is unchanged.
InsertEvictsChosen ==
    [][ (/\ last'.op = "insert"
         /\ SlotsHolding(entries, last'.key) = {}
         /\ ~HasEmptyCandidate(entries, last'.key)) =>
            /\ last'.chosen # <<>>
            /\ last'.chosen[1] \in IndexSet(last'.key)
            /\ last'.ret = entries[last'.chosen[1]]
            /\ entries' = [entries EXCEPT ![last'.chosen[1]] = <<last'.key, last'.val>>]
            /\ len' = len ]_vars

\* An eviction in the two-way cache, and the capacity-1 scenario.
InsertEvictsWitness ==
    /\ last.op = "insert"
    /\ last.chosen # <<>>
    /\ last.ret # <<>>
    /\ cfg.ways = 2

\* C8: get(k) right after insert(k, v) returns v.
GetAfterInsert ==
    last.op = "insert" => GetResult(entries, last.key) = <<last.val>>

\* The insert had to evict from the second slot of the group.
GetAfterInsertWitness ==
    /\ last.op = "insert"
    /\ last.chosen = <<1>>

\* C9: insert returns nothing exactly when len grows by one and returns an
\* old entry exactly when len is unchanged; len changes in no other way.
InsertLenMatchesReturn ==
    [][ last'.op = "insert" =>
            /\ (last'.ret = <<>>) <=> (len' = len + 1)
            /\ (last'.ret # <<>>) <=> (len' = len)
            /\ len' \in {len, len + 1} ]_vars

\* An insert into a full cache that returned the evicted entry of another key.
InsertLenWitness ==
    /\ last.op = "insert"
    /\ last.ret # <<>>
    /\ last.ret[1] # last.key
    /\ len = CAPACITY

\* What a lookup of key has to return: the value of the candidate slot that
\* holds key, nothing when no candidate slot holds it.
StoredValue(es, key) ==
    IF \E i \in IndexSet(key) : es[i] # <<>> /\ es[i][1] = key
    THEN <<es[CHOOSE i \in IndexSet(key) : es[i] # <<>> /\ es[i][1] = key][2]>>
    ELSE <<>>

\* C10: get and get_mut return the value stored with the key, or nothing, and
\* change neither the slots, nor len, nor the round-robin counter.
GetIsPure ==
    [][ last'.op \in {"get", "get_mut"} =>
            /\ last'.ret = StoredValue(entries, last'.key)
            /\ entries' = entries
            /\ len' = len
            /\ n' = n ]_vars

\* A hit in the second candidate slot after the counter has moved.
GetIsPureWitness ==
    /\ last.op \in {"get", "get_mut"}
    /\ last.ret # <<>>
    /\ n > 0
    /\ entries[0] # <<>>
    /\ entries[0][1] # last.key

\* key is present: one of its candidate slots holds it.
Present(es, key) == \E i \in IndexSet(key) : es[i] # <<>> /\ es[i][1] = key

\* C11: remove of a present key empties the slot holding it, takes one off
\* len and returns the key's value, after which get and a second remove of
\* the key return nothing; remove of an absent key returns nothing and
\* changes neither the slots nor len.
RemoveTakesOut ==
    [][ last'.op = "remove" =>
            /\ Present(entries, last'.key) =>
                   /\ \E i \in IndexSet(last'.key) :
                          /\ entries[i] # <<>>
                          /\ entries[i][1] = last'.key
                          /\ last'.ret = <<entries[i][2]>>
                          /\ entries' = [entries EXCEPT ![i] = <<>>]
                   /\ len' = len - 1
                   /\ GetResult(entries', last'.key) = <<>>
                   /\ RemoveResult(entries', len', last'.key).ret = <<>>
            /\ ~Present(entries, last'.key) =>
                   /\ last'.ret = <<>>
                   /\ entries' = entries
                   /\ len' = len
            /\ (last.op = "remove" /\ last.key = last'.key) =>
                   /\ last'.ret = <<>>
                   /\ entries' = entries
                   /\ len' = len ]_vars

\* A remove that took its key out of a group whose other slot stays occupied.
RemoveTakesOutWitness ==
    /\ last.op = "remove"
    /\ last.ret # <<>>
    /\ len = 1
    /\ cfg.ways = 2
    /\ \E i \in IndexSet(last.key) : entries[i] # <<>>

\* C12: after retain the occupied slots are exactly the previously occupied
\* slots whose pair the predicate accepted, each with its pair at its own
\* index, every slot whose pair was refused is empty, and len has dropped by
\* the number of refused pairs.
RetainKeepsAccepted ==
    [][ last'.op = "retain" =>
            /\ last'.visited = { i \in Slots : entries[i] # <<>> }
            /\ \A i \in Slots :
                   entries'[i] = IF i \in last'.visited /\ i \in last'.kept
                                 THEN entries[i] ELSE <<>>
            /\ { i \in Slots : entries'[i] # <<>> } =
                   last'.visited \cap last'.kept
            /\ len' = len - Cardinality(last'.visited \ last'.kept) ]_vars

\* A retain over two stored pairs that refused the first and kept the second.
RetainKeepsAcceptedWitness ==
    /\ last.op = "retain"
    /\ last.visited = {0, 1}
    /\ last.kept = {1}
    /\ entries[1] # <<>>

\* C18: entry(k) on a key whose candidate slots all hold other keys, then
\* take_entry_that_will_be_replaced, then or_insert_with, ends with the len
\* that insert(k, v) gives from the state entry was called in: the pair taken
\* out is counted out once and the pair put in is counted in once.
TakeThenInsertKeepsLen ==
    [][ (/\ last.op = "take"
         /\ last.ret # <<>>
         /\ last'.op = "or_insert_with") =>
            \E before \in {[entries EXCEPT ![last.index] = last.ret]} :
                /\ ~Present(before, last.key)
                /\ ~HasEmptyCandidate(before, last.key)
                /\ len' = InsertResult(before,
                                       Cardinality({ i \in Slots : before[i] # <<>> }),
                                       n, last.key, last'.val).len
                /\ len' = Cardinality({ i \in Slots : before[i] # <<>> }) ]_vars

\* or_insert_with filled the slot that take_entry_that_will_be_replaced had
\* emptied, in a cache that is full again.
TakeThenInsertWitness ==
    /\ last.op = "or_insert_with"
    /\ last.after = "take"
    /\ last.made
    /\ handle = <<>>
    /\ len = CAPACITY
    /\ n > 0
    /\ cfg.ways = 2

\* C19: or_insert_with on the handle of a key that is already present returns
\* the stored value, invokes neither closure and leaves slots and len alone.
OrInsertWithPresentKeeps ==
    [][ (/\ last'.op = "or_insert_with"
         /\ Present(entries, last'.key)) =>
            /\ last'.ret = StoredValue(entries, last'.key)
            /\ ~last'.made
            /\ entries' = entries
            /\ len' = len ]_vars

\* or_insert_with on an occupied handle whose closure would have made the
\* other value.
OrInsertWithPresentWitness ==
    /\ last.op = "or_insert_with"
    /\ ~last.made
    /\ last.ret # <<last.val>>

\* C20: take_entry_that_will_be_replaced on a Replace handle empties the
\* pending slot, returns its pair, takes one off len and makes the handle
\* Vacant, so that a second call returns nothing and changes nothing; on an
\* Occupied or Vacant handle it returns nothing and changes neither slots,
\* len nor the handle.
TakeEmptiesPending ==
    [][ last'.op = "take" =>
            /\ handle.kind = "Replace" =>
                   /\ entries[handle.index] # <<>>
                   /\ last'.ret = entries[handle.index]
                   /\ entries' = [entries EXCEPT ![handle.index] = <<>>]
                   /\ len' = len - 1
                   /\ handle' = [handle EXCEPT !.kind = "Vacant"]
                   /\ TakeResult(entries', len', handle') =
                          [entries |-> entries', len |-> len',
                           kind |-> "Vacant", ret |-> <<>>]
            /\ handle.kind # "Replace" =>
                   /\ last'.ret = <<>>
                   /\ entries' = entries
                   /\ len' = len
                   /\ handle' = handle
            /\ last.op = "take" =>
                   /\ last'.ret = <<>>
                   /\ entries' = entries
                   /\ len' = len
                   /\ handle' = handle ]_vars

\* The handle is Vacant after its pending pair was taken out of a full group.
TakeEmptiesPendingWitness ==
    /\ last.op = "take"
    /\ last.ret # <<>>
    /\ handle # <<>>
    /\ handle.kind = "Vacant"
    /\ entries[handle.index] = <<>>
    /\ len = CAPACITY - 1

\* What tests::insert expects each call of the script to return.
ScriptReturns == << <<>>, <<>>, <<>>, <<>>, <<2, 2>>, <<0, 0>>, <<3, 3>>, <<1, 1>> >>

\* C14: from the empty Capacity4 two-way round-robin cache over *mut u8
\* keys, insert(0,0), (1,1), (2,2), (3,3) return nothing, then insert(4,4)
\* returns (2,2), insert(6,6) returns (0,0), insert(5,5) returns (3,3) and
\* insert(7,7) returns (1,1).
TraceReturnsAsScripted ==
    (step >= 1 /\ last.op = "insert") => last.ret = ScriptReturns[step]

\* The last insert of the script has returned.
TraceReturnsWitness ==
    /\ step = Len(Script)
    /\ last.op = "insert"
    /\ last.key = 7

\* C15 as stated: at the end of the script get(0) returns the value 0 and
\* get(1) returns nothing.
TraceEndGetsZero ==
    (step = Len(Script) /\ last.op = "get") =>
        /\ last.key = 0 => last.ret = <<0>>
        /\ last.key = 1 => last.ret = <<>>

\* C15, amended: at the end of the script get(0) returns nothing, key 0
\* having been evicted by insert(6,6), and get(1) returns nothing.
TraceEndGetsNothing ==
    (step = Len(Script) /\ last.op = "get") =>
        /\ last.key = 0 => last.ret = <<>>
        /\ last.key = 1 => last.ret = <<>>

\* get(0) was called at the end of the script.
TraceEndGetsWitness ==
    /\ step = Len(Script)
    /\ last.op = "get"
    /\ last.key = 0
    /\ len = CAPACITY

\* C13: a fresh round-robin policy called again and again with the same
\* number of candidates returns the positions 0, 1, ..., count-1, 0, 1, ...
\* in that order.
RoundRobinCycles ==
    \A j \in 1..Len(picked) : picked[j] = (j - 1) % Len(cands)

\* The policy went round three candidates and started over.
RoundRobinCyclesWitness ==
    /\ Len(cands) = 3
    /\ Len(picked) = 5
    /\ picked[4] = 0
    /\ picked[5] = 1
    /\ n = 2

\* C16: LRU choose_for_replacement returns the index of a candidate with the
\* minimum timestamp, and of those the one latest in iteration order.
LruPicksLatestMinimum ==
    picked # <<>> =>
        \E p \in 1..Len(cands) :
            /\ cands[p][1] = picked[1]
            /\ \A q \in 1..Len(cands) :
                   GetTimestamp(cands[q][2]) >= GetTimestamp(cands[p][2])
            /\ \A q \in (p + 1)..Len(cands) :
                   GetTimestamp(cands[q][2]) > GetTimestamp(cands[p][2])

\* Two of three candidates share the minimum and the second of them is picked.
LruPicksLatestMinimumWitness ==
    /\ picked = <<1>>
    /\ Len(cands) = 3
    /\ GetTimestamp(cands[1][2]) = GetTimestamp(cands[2][2])
    /\ GetTimestamp(cands[3][2]) > GetTimestamp(cands[2][2])

\* C17: with LRU replacement, whenever insert or entry has to evict from a
\* full candidate set the slot chosen is the least recently used candidate:
\* none of the candidates was last used (inserted, or hit by get, get_mut
\* or an occupied entry lookup) before it.
LruEvictsLeastRecentlyUsed ==
    [][ (/\ last'.op \in {"insert", "entry"}
         /\ last'.chosen # <<>>) =>
            \A j \in IndexSet(last'.key) :
                used[last'.chosen[1]] <= used[j] ]_vars

\* C21: or_insert_with on a Vacant handle writes the made pair into the
\* handle's slot and adds one to len; on a Replace handle it writes the pair
\* over the pending slot and leaves len alone; either way the made value is
\* returned and a get of the key that follows finds it.
OrInsertWithWrites ==
    [][ (/\ last'.op = "or_insert_with"
         /\ handle.kind \in {"Vacant", "Replace"}) =>
            /\ last'.made
            /\ entries' = [entries EXCEPT ![handle.index] = <<last'.key, last'.val>>]
            /\ handle.kind = "Vacant" => (entries[handle.index] = <<>> /\ len' = len + 1)
            /\ handle.kind = "Replace" => (entries[handle.index] # <<>> /\ len' = len)
            /\ last'.ret = <<last'.val>>
            /\ GetResult(entries', last'.key) = <<last'.val>> ]_vars

\* or_insert_with wrote over the pending pair of a Replace handle.
OrInsertWithWritesWitness ==
    /\ last.op = "or_insert_with"
    /\ last.after = "entry"
    /\ last.made
    /\ len = CAPACITY
    /\ n > 0
    /\ GetResult(entries, last.key) = <<last.val>>

\* C22: in every state iteration yields exactly len pairs, one per occupied
\* slot in storage order, none for an empty slot and no slot twice; the
\* remaining count starts at len, goes down by one per pair yielded and is 0
\* when the iterator is exhausted.
IterYieldsOccupied ==
    \E it \in {IntoIter(entries, len)} :
        /\ Len(it) = len
        /\ { it[j].slot : j \in 1..Len(it) } = OccupiedSlots
        /\ \A j \in 1..Len(it) :
               /\ it[j].ok
               /\ it[j].item # <<>>
               /\ it[j].item = entries[it[j].slot]
               /\ it[j].len = len - j
               /\ \A i \in 1..(j - 1) : it[i].slot < it[j].slot
        /\ len - Len(it) = 0

\* One pair stored behind a hole: iteration has to skip the empty first slot.
IterYieldsOccupiedWitness ==
    /\ len = 1
    /\ entries[0] = <<>>
    /\ CAPACITY = 2
    /\ IntoIter(entries, len)[1].slot = 1
    /\ last.op = "remove"

\* C23 as stated: whenever an occupied slot is overwritten with a different
\* entry, by insert or by or_insert_with, or emptied by
\* take_entry_that_will_be_replaced, the call returns its prior occupant.
OverwrittenIsReturned ==
    [][ \A i \in Slots :
            (/\ last'.op \in {"insert", "or_insert_with", "take"}
             /\ entries[i] # <<>>
             /\ entries'[i] # entries[i]) =>
                last'.ret = entries[i] ]_vars

\* C23, amended: insert returns the prior occupant of the slot it overwrites
\* and take_entry_that_will_be_replaced returns the occupant of the slot it
\* empties; or_insert_with overwrites an occupied slot only on a Replace
\* handle whose pending pair was not taken, and then returns the made value
\* and drops the prior occupant.
OverwrittenIsReturnedUnlessPending ==
    [][ \A i \in Slots :
            (/\ last'.op \in {"insert", "or_insert_with", "take"}
             /\ entries[i] # <<>>
             /\ entries'[i] # entries[i]) =>
                /\ last'.op \in {"insert", "take"} => last'.ret = entries[i]
                /\ last'.op = "or_insert_with" =>
                       /\ last'.kind = "Replace"
                       /\ last.op = "entry"
                       /\ i = last'.index
                       /\ last'.ret = <<last'.val>>
                       /\ last'.ret # entries[i] ]_vars

\* or_insert_with wrote over the pending pair of a Replace handle in a
\* direct-mapped cache, without take_entry_that_will_be_replaced before it.
OverwrittenIsReturnedWitness ==
    /\ last.op = "or_insert_with"
    /\ last.kind = "Replace"
    /\ last.after = "entry"
    /\ cfg.ways = 1

\* C24: on_insert is invoked on the stored value every time a slot is
\* freshly written: when insert puts a new key into an empty slot, when
\* insert replaces an evicted key and when or_insert_with fills a Vacant or
\* Replace handle; it is not invoked when insert overwrites the value of a
\* key that is already present.
OnInsertOnFreshWrite ==
    [][ /\ (/\ last'.op = "insert"
            /\ ~Present(entries, last'.key)) =>
               last'.hooks = <<OnInsert(last'.index)>>
        /\ (/\ last'.op = "or_insert_with"
            /\ last'.kind \in {"Vacant", "Replace"}) =>
               last'.hooks = <<OnInsert(last'.index)>>
        /\ (/\ last'.op = "insert"
            /\ Present(entries, last'.key)) =>
               last'.hooks = <<>> ]_vars

\* C25: on_hit is invoked on the found value, once, exactly when get,
\* get_mut or entry finds the key; it is not invoked on a miss, nor by
\* insert, remove or retain; under LRU a hit stamps the found value with the
\* instant of the call and a miss changes no timestamp.
OnHitOnLookup ==
    [][ /\ (/\ last'.op \in {"get", "get_mut", "entry"}
            /\ Present(entries, last'.key)) =>
               \E i \in IndexSet(last'.key) :
                   /\ entries[i] # <<>>
                   /\ entries[i][1] = last'.key
                   /\ last'.hooks = <<OnHit(i)>>
                   /\ entries' = [entries EXCEPT ![i] =
                                      <<entries[i][1],
                                        UpdateTimestamp(entries[i][2], now)>>]
        /\ (/\ last'.op \in {"get", "get_mut", "entry"}
            /\ ~Present(entries, last'.key)) =>
               /\ last'.hooks = <<>>
               /\ entries' = entries
        /\ last'.op \in {"insert", "remove", "retain"} =>
               \A j \in 1..Len(last'.hooks) : last'.hooks[j].hook # "on_hit" ]_vars

\* get_mut found its key next to another stored pair and stamped its value.
OnHitOnLookupWitness ==
    /\ last.op = "get_mut"
    /\ last.hooks = <<OnHit(last.index)>>
    /\ len = 2
    /\ GetTimestamp(entries[last.index][2]) = now - 1
    /\ GetTimestamp(entries[1 - last.index][2]) < now - 1

\* The empty candidate slots of key, in candidate iteration order.
EmptyCandidates(es, key) ==
    SelectSeq(Indices(key), LAMBDA i : es[i] = <<>>)

\* C28 as stated: entry for an absent key with two or more empty candidate
\* slots returns a Vacant handle over the first of them in iteration order.
EntryTakesFirstEmpty ==
    [][ (/\ last'.op = "entry"
         /\ ~Present(entries, last'.key)
         /\ Len(EmptyCandidates(entries, last'.key)) >= 2) =>
            /\ handle'.kind = "Vacant"
            /\ handle'.index = EmptyCandidates(entries, last'.key)[1] ]_vars

\* C28, amended: entry for an absent key with two or more empty candidate
\* slots returns a Vacant handle over the last of them in iteration order,
\* the slot insert would use, and or_insert_with stores the key there.
EntryTakesLastEmpty ==
    [][ /\ (/\ last'.op = "entry"
            /\ ~Present(entries, last'.key)
            /\ Len(EmptyCandidates(entries, last'.key)) >= 2) =>
               /\ handle'.kind = "Vacant"
               /\ handle'.index =
                      EmptyCandidates(entries, last'.key)
                          [Len(EmptyCandidates(entries, last'.key))]
               /\ handle'.index = InsertResult(entries, len, n, last'.key, 0).index
        /\ (/\ last'.op = "or_insert_with"
            /\ last.op = "entry"
            /\ last'.kind = "Vacant") =>
               /\ last'.index = handle.index
               /\ entries'[handle.index] = <<last'.key, last'.val>> ]_vars

\* or_insert_with stored its key in the second slot of an empty two-way group.
EntryTakesLastEmptyWitness ==
    /\ last.op = "or_insert_with"
    /\ last.kind = "Vacant"
    /\ last.after = "entry"
    /\ cfg.ways = 2
    /\ len = 1
    /\ entries[0] = <<>>
    /\ entries[1] # <<>>

\* C29: insert of an absent key whose candidate set has several empty slots
\* stores the pair in the empty candidate slot with the highest index, so an
\* empty group is filled from its highest index down to its lowest.
InsertTakesHighestEmpty ==
    [][ (/\ last'.op = "insert"
         /\ ~Present(entries, last'.key)
         /\ HasEmptyCandidate(entries, last'.key)) =>
            /\ entries[last'.index] = <<>>
            /\ last'.index \in IndexSet(last'.key)
            /\ \A i \in IndexSet(last'.key) : entries[i] = <<>> => i <= last'.index
            /\ entries' = [entries EXCEPT ![last'.index] = <<last'.key, last'.val>>] ]_vars

\* The first insert into an empty two-way group went into its second slot.
InsertTakesHighestEmptyWitness ==
    /\ last.op = "insert"
    /\ last.index = 1
    /\ cfg.ways = 2
    /\ len = 1
    /\ entries[0] = <<>>
    /\ n = 0

\* C30: the round-robin counter is shared by all groups of slots: in an
\* N-way cache the j-th eviction decision since construction, counting from
\* 0 the decisions of insert and of entry alike, selects position j mod N of
\* the requesting key's candidates, whatever the key's group.
SharedCounterCycles ==
    \A j \in 1..Len(picked) : picked[j].position = (j - 1) % cfg.ways

\* An insert decided for one group, then an entry for the other group, then
\* an insert again: positions 0, 1, 0.
SharedCounterCyclesWitness ==
    /\ Len(picked) >= 3
    /\ picked[1].op = "insert"
    /\ picked[2].op = "entry"
    /\ picked[3].op = "insert"
    /\ picked[1].group # picked[2].group
    /\ picked[2].position = 1
    /\ picked[3].position = 0

\* C26: when the caller's replacement policy returns an index that is not
\* one of the key's candidates, the operation panics: neither insert nor
\* entry followed by or_insert_with writes a key outside its candidate set.
PolicyOutsideAborts ==
    [][ /\ (/\ last'.op = "insert"
            /\ last'.chosen # <<>>
            /\ last'.chosen[1] \notin IndexSet(last'.key)) =>
               (last'.panicked /\ entries' = entries /\ len' = len)
        /\ \A i \in Slots :
               (entries'[i] # entries[i] /\ entries'[i] # <<>>) =>
                   i \in IndexSet(entries'[i][1]) ]_vars

\* The calls that walk the candidate indices of their key.
WalkingOps == {"insert", "get", "get_mut", "remove", "entry"}

\* C27 as stated: when the indices strategy yields an index out of range for
\* a key, every insert, get, get_mut, remove and entry call on that key
\* panics, and no slot and no len change is made before the panic.
OutOfRangeAborts ==
    [][ (last'.op \in WalkingOps /\ last'.key \in OutOfRangeKeys) =>
            /\ last'.panicked
            /\ entries' = entries
            /\ len' = len
            /\ handle' = handle ]_vars

\* C27, amended: every insert on such a key panics, and so does every get,
\* get_mut, remove and entry call on it as long as every make_key returned a
\* key equal to the key its handle was queried with; no slot and no len
\* change is made before the panic.
OutOfRangeAbortsWhenConform ==
    [][ (/\ last'.op \in WalkingOps
         /\ last'.key \in OutOfRangeKeys
         /\ (conform \/ last'.op = "insert")) =>
            /\ last'.panicked
            /\ entries' = entries
            /\ len' = len
            /\ handle' = handle ]_vars

\* remove panicked on a key whose out-of-range index comes after two
\* occupied candidate slots.
OutOfRangeAbortsWitness ==
    /\ conform
    /\ last.op = "remove"
    /\ last.panicked
    /\ last.key \in OutOfRangeKeys
    /\ cfg.at = "last"
    /\ len = 2

\* C31: choose_for_replacement is called, by insert or by entry, only when
\* every candidate slot of the key holds another key, and it receives the
\* key's candidate indices in strategy order, each with the value stored at
\* that index, a sequence that is never empty.
PolicyAskedWhenFull ==
    [][ last'.chosen # <<>> =>
            /\ last'.op \in {"insert", "entry"}
            /\ \A i \in IndexSet(last'.key) :
                   entries[i] # <<>> /\ entries[i][1] # last'.key
            /\ last'.offered # <<>>
            /\ Len(last'.offered) = Len(Indices(last'.key))
            /\ \A j \in 1..Len(last'.offered) :
                   last'.offered[j] =
                       <<Indices(last'.key)[j],
                         entries[Indices(last'.key)[j]][2]>> ]_vars

\* entry asked the policy about two slots holding different values under
\* keys other than their values.
PolicyAskedWhenFullWitness ==
    /\ last.op = "entry"
    /\ last.chosen # <<>>
    /\ Len(last.offered) = 2
    /\ last.offered[1][2] # last.offered[2][2]
    /\ entries[0][1] # entries[0][2]

\* C32: entry that yields a pending-replace handle touches no slot and not
\* len, and neither does dropping the handle unused: the slot chosen for
\* eviction keeps its pair until or_insert_with or
\* take_entry_that_will_be_replaced is called.
PendingReplaceTouchesNothing ==
    [][ /\ (last'.op = "entry" /\ handle'.kind = "Replace") =>
               /\ entries' = entries
               /\ len' = len
               /\ entries'[handle'.index] # <<>>
        /\ (last'.op = "drop" /\ last'.kind = "Replace") =>
               /\ entries' = entries
               /\ len' = len
               /\ entries'[last'.index] # <<>>
               /\ handle' = <<>> ]_vars

\* A pending-replace handle was dropped unused on a full two-way cache.
PendingReplaceWitness ==
    /\ last.op = "drop"
    /\ last.kind = "Replace"
    /\ cfg.ways = 2
    /\ len = 2
    /\ n = 1

\* C33: for every key and every capacity C >= N the hash-based N-way
\* strategy yields exactly the N consecutive indices base, ..., base + N - 1
\* with base = (hash(key) mod floor(C / N)) * N, all of them below C, and
\* equal keys always get the same sequence.
HashIndicesInGroup ==
    /\ \A p \in 1..Len(picked) :
           IF CAPACITY >= cfg.ways THEN
               /\ ~picked[p].panicked
               /\ Len(picked[p].indices) = cfg.ways
               /\ \E g \in 0..((CAPACITY \div cfg.ways) - 1) :
                      /\ g = cfg.hash[picked[p].key] % (CAPACITY \div cfg.ways)
                      /\ \A j \in 1..cfg.ways :
                             picked[p].indices[j] = g * cfg.ways + (j - 1)
               /\ \A j \in 1..cfg.ways : picked[p].indices[j] < CAPACITY
           ELSE picked[p].panicked
    /\ \A p, q \in 1..Len(picked) :
           picked[p].key = picked[q].key => picked[p].indices = picked[q].indices

\* A two-way strategy on a capacity of five placed a key hashing to 3 in the
\* second group, twice in a row.
HashIndicesInGroupWitness ==
    /\ cfg.capacity = 5
    /\ cfg.ways = 2
    /\ Len(picked) = 2
    /\ picked[1].key = picked[2].key
    /\ cfg.hash[picked[2].key] = 3
    /\ picked[2].indices = <<2, 3>>

\* What tests::pointer_direct_mapped and tests::pointer_two_way expect of
\* Capacity4 and *mut u64: the slots of the addresses 0, 8, 16, 24 and 32.
DirectMappedSlots == <<<<0>>, <<1>>, <<2>>, <<3>>, <<0>>>>
TwoWaySlots == <<<<0, 1>>, <<2, 3>>, <<0, 1>>, <<2, 3>>, <<0, 1>>>>

\* C34: for every address a, pointee alignment A and capacity C >= N the
\* address-based N-way strategy yields the N consecutive indices from
\* ((a div A) mod floor(C / N)) * N on, all below C; for A = 8 and C = 4 the
\* direct-mapped strategy maps the addresses 0, 8, 16, 24, 32 to the slots
\* 0, 1, 2, 3, 0 and the two-way strategy to [0,2), [2,4), [0,2), [2,4),
\* [0,2).
PointerIndicesInGroup ==
    \A p \in 1..Len(picked) :
        (CAPACITY >= cfg.ways) =>
            /\ ~picked[p].panicked
            /\ Len(picked[p].indices) = cfg.ways
            /\ \A j \in 1..cfg.ways :
                   /\ picked[p].indices[j] =
                          (((picked[p].key \div cfg.align)
                                % (CAPACITY \div cfg.ways)) * cfg.ways) + (j - 1)
                   /\ picked[p].indices[j] < CAPACITY
            /\ \A e \in 1..Len(DirectMappedSlots) :
                   (/\ cfg.align = 8
                    /\ CAPACITY = 4
                    /\ picked[p].key = 8 * (e - 1)) =>
                       /\ cfg.ways = 1 => picked[p].indices = DirectMappedSlots[e]
                       /\ cfg.ways = 2 => picked[p].indices = TwoWaySlots[e]

\* PointerTwoWay over Capacity4 and *mut u64 was asked about 24 and then 32.
PointerIndicesInGroupWitness ==
    /\ cfg = [capacity |-> 4, ways |-> 2, align |-> 8]
    /\ Len(picked) = 2
    /\ picked[1].key = 24
    /\ picked[1].indices = <<2, 3>>
    /\ picked[2].key = 32
    /\ picked[2].indices = <<0, 1>>

\* The slots the groups of a provided N-way strategy cover.
Covered == (CAPACITY \div cfg.ways) * cfg.ways

\* C35: with a provided N-way strategy and a capacity C that is not a
\* multiple of N, the slots at the indices from floor(C / N) * N on are
\* never occupied, so len never exceeds floor(C / N) * N and the cache never
\* holds C entries.
UncoveredSlotsStayEmpty ==
    (CAPACITY % cfg.ways # 0) =>
        /\ \A i \in Slots : i >= Covered => entries[i] = <<>>
        /\ len <= Covered
        /\ len < CAPACITY
        /\ Cardinality(OccupiedSlots) < CAPACITY

\* insert had to evict from a cache of capacity three that holds two pairs.
UncoveredSlotsWitness ==
    /\ CAPACITY = 3
    /\ cfg.ways = 2
    /\ last.op = "insert"
    /\ last.chosen # <<>>
    /\ len = 2
    /\ entries[2] = <<>>

\* The position, counted from 0, of index among the candidate indices idxs.
PositionIn(index, idxs) ==
    (CHOOSE p \in 1..Len(idxs) : idxs[p] = index) - 1

\* C36: with round-robin replacement, entry on a key whose candidates all
\* hold other keys advances the counter even when the handle is dropped
\* unused: the eviction decision that follows the drop selects the position
\* after the one offered to the dropped handle.
DroppedEntryAdvances ==
    [][ /\ (last'.op = "entry" /\ last'.chosen # <<>>) =>
               n' = PositionIn(last'.chosen[1], Indices(last'.key)) + 1
        /\ last'.op = "drop" => n' = n
        /\ (last.op = "drop" /\ last.kind = "Replace" /\ last'.chosen # <<>>) =>
               PositionIn(last'.chosen[1], Indices(last'.key)) =
                   (PositionIn(last.index, Indices(last.key)) + 1) % cfg.ways ]_vars

\* entry was offered position 0 of one group and its handle dropped; the
\* insert that followed evicted position 1 of the other group.
DroppedEntryAdvancesWitness ==
    /\ Len(picked) = 2
    /\ picked[1].op = "entry"
    /\ picked[1].position = 0
    /\ picked[2].op = "insert"
    /\ picked[2].dropped
    /\ picked[2].position = 1
    /\ picked[2].group # picked[1].group
    /\ last.op = "insert"

\* entry(key); take_entry_that_will_be_replaced(); or_insert_with(|| key,
\* || value) from the cache (es, l, rr): the cache afterwards and what take
\* returned.
ViaEntry(es, l, rr, key, value) ==
    LET e == EntryResult(es, rr, key)
        h == [kind |-> e.kind, index |-> e.index, query |-> key]
        t == TakeResult(es, l, h)
        o == OrInsertWithResult(t.entries, t.len, [h EXCEPT !.kind = t.kind],
                                key, value)
    IN  [entries |-> o.entries, len |-> o.len, n |-> e.n, ret |-> t.ret]

\* C37: from every reachable state and for every key that is not present,
\* entry, take_entry_that_will_be_replaced and or_insert_with in a row leave
\* the same slots, the same len and the same round-robin counter as insert,
\* and take returns the pair insert returns.
EntryTakeInsertLikeInsert ==
    handle = <<>> =>
        \A key \in Keys, value \in Vals :
            ~Present(entries, key) =>
                \E v \in {ViaEntry(entries, len, n, key, value)},
                   i \in {InsertResult(entries, len, n, key, value)} :
                    /\ v.entries = i.entries
                    /\ v.len = i.len
                    /\ v.n = i.n
                    /\ v.ret = i.ret

\* The three calls in a row evicted a pair from a full two-way cache, as an
\* insert from the state before them would have.
EntryTakeInsertWitness ==
    /\ last.op = "or_insert_with"
    /\ last.after = "take"
    /\ last.kind = "Vacant"
    /\ cfg.ways = 2
    /\ len = 2
    /\ n = 2
    /\ entries[1] = <<last.key, last.val>>

\* The calls that write a slot.
WritingOps == {"insert", "remove", "take", "or_insert_with"}

\* C38 as stated: each insert, remove, take_entry_that_will_be_replaced and
\* or_insert_with on a key changes at most one slot, a candidate of the key,
\* and never an entry whose candidate set is disjoint from the key's.
OneSlotTouched ==
    [][ last'.op \in WritingOps =>
            /\ Cardinality({ i \in Slots : entries'[i] # entries[i] }) <= 1
            /\ \A i \in Slots :
                   entries'[i] # entries[i] => i \in IndexSet(last'.key)
            /\ \A i \in Slots :
                   (/\ entries[i] # <<>>
                    /\ IndexSet(entries[i][1]) \cap IndexSet(last'.key) = {}) =>
                       entries'[i] = entries[i] ]_vars

\* C38, amended: each of these calls on a key changes at most one slot, a
\* candidate of the key, every other slot keeping its pair; and as long as
\* every make_key returned a key equal to the key its handle was queried
\* with, it never changes an entry whose candidate set is disjoint from the
\* key's.
OneSlotTouchedWhenConform ==
    [][ last'.op \in WritingOps =>
            /\ Cardinality({ i \in Slots : entries'[i] # entries[i] }) <= 1
            /\ \A i \in Slots :
                   entries'[i] # entries[i] => i \in IndexSet(last'.key)
            /\ conform =>
                   \A i \in Slots :
                       (/\ entries[i] # <<>>
                        /\ IndexSet(entries[i][1]) \cap IndexSet(last'.key) = {}) =>
                           entries'[i] = entries[i] ]_vars

\* insert evicted from its own slot of a full direct-mapped cache whose other
\* slot holds a key with a disjoint candidate set.
OneSlotTouchedWitness ==
    /\ conform
    /\ last.op = "insert"
    /\ last.chosen # <<>>
    /\ cfg.ways = 1
    /\ CAPACITY = 2
    /\ len = 2
    /\ \E i \in Slots : i # last.index /\ i \notin IndexSet(last.key)

\* C39: after every round-robin choose_for_replacement call with c
\* candidates the stored counter n is at least 1 and at most c, however many
\* decisions were made, and the position handed to the candidate iterator is
\* below c.
CounterStaysInRange ==
    picked # <<>> =>
        /\ 1 <= n
        /\ n <= Len(cands)
        /\ picked[Len(picked)] < Len(cands)
        /\ n = picked[Len(picked)] + 1

\* The counter wrapped round two candidates and stands at 1 after the third
\* call.
CounterStaysInRangeWitness ==
    /\ Len(cands) = 2
    /\ Len(picked) = 3
    /\ n = 1

====
